---- MODULE Spec2Model ----
(***************************************************************************)
(* A model of sgflib.py (goodger/sgflib): the SGF data model (Collection,  *)
(* GameTree, Node), the merge engine and the normalizer.                   *)
(*                                                                         *)
(* Representation.                                                         *)
(*   str        a Python str is the sequence of its characters, each a     *)
(*              one-character TLA+ string: 'aa' is <<"a", "a">>.           *)
(*   None       the value NoneVal; `any` (the wildcard of the ignore       *)
(*              tables) the value any.  Both are one-element sequences     *)
(*              whose element is no character, so no str equals them.      *)
(*   Node       a dict keeps insertion order: a Node is the sequence of    *)
(*              its items [id |-> ..., val |-> ...]; val is a str for a    *)
(*              scalar property and a sequence of str for a list one.      *)
(*   GameTree   [nodes |-> sequence of Node, branches |-> sequence of      *)
(*              GameTree].                                                 *)
(*   Collection a sequence of GameTree.                                    *)
(*   exception  a record err; err.kind = "none" when nothing was raised.   *)
(***************************************************************************)
EXTENDS Integers, Sequences, FiniteSets, TLC

(***************************************************************************)
(* Python values                                                           *)
(***************************************************************************)
NoneVal == <<"None">>

any == <<"any">>

NoErr == [kind |-> "none", pid |-> "", self_value |-> <<>>, other_value |-> <<>>]

Raise(kind) == [kind |-> kind, pid |-> "", self_value |-> <<>>, other_value |-> <<>>]

\* `not x` for x a str or None
Falsy(x) == x = NoneVal \/ x = <<>>

Whitespace == {" ", "\n", "\t", "\r"}

RECURSIVE LStrip(_)
LStrip(s) == IF s # <<>> /\ Head(s) \in Whitespace THEN LStrip(Tail(s)) ELSE s

RECURSIVE RStrip(_)
RStrip(s) ==
  IF s # <<>> /\ s[Len(s)] \in Whitespace THEN RStrip(SubSeq(s, 1, Len(s) - 1)) ELSE s

\* str.strip()
Strip(s) == RStrip(LStrip(s))

UpperLetters ==
  <<"A", "B", "C", "D", "E", "F", "G", "H", "I", "J", "K", "L", "M",
    "N", "O", "P", "Q", "R", "S", "T", "U", "V", "W", "X", "Y", "Z">>

LowerLetters ==
  <<"a", "b", "c", "d", "e", "f", "g", "h", "i", "j", "k", "l", "m",
    "n", "o", "p", "q", "r", "s", "t", "u", "v", "w", "x", "y", "z">>

LowerChar(ch) ==
  IF \E k \in 1..Len(UpperLetters) : UpperLetters[k] = ch
  THEN LowerLetters[CHOOSE k \in 1..Len(UpperLetters) : UpperLetters[k] = ch]
  ELSE ch

\* str.lower()
Lower(s) == [k \in 1..Len(s) |-> LowerChar(s[k])]

Digits == <<"0", "1", "2", "3", "4", "5", "6", "7", "8", "9">>

IsDigit(ch) == \E k \in 1..Len(Digits) : Digits[k] = ch

DigitVal(ch) == (CHOOSE k \in 1..Len(Digits) : Digits[k] = ch) - 1

RECURSIVE Pow10(_)
Pow10(k) == IF k = 0 THEN 1 ELSE 10 * Pow10(k - 1)

RECURSIVE DigitsVal(_)
DigitsVal(s) ==
  IF s = <<>> THEN 0 ELSE 10 * DigitsVal(SubSeq(s, 1, Len(s) - 1)) + DigitVal(s[Len(s)])

\* float(s) for the decimal literals [sign] digits [. digits] | [sign] . digits,
\* surrounded by optional whitespace; any other text raises ValueError.
\* The value is mant / 10^exp.  ip, fp: the digits before and after the dot.
FloatDigits(neg, ip, fp) ==
  IF /\ Len(ip) + Len(fp) >= 1
     /\ \A k \in 1..Len(ip) : IsDigit(ip[k])
     /\ \A k \in 1..Len(fp) : IsDigit(fp[k])
  THEN [ok |-> TRUE,
        mant |-> (IF neg THEN -1 ELSE 1) * DigitsVal(ip \o fp),
        exp |-> Len(fp)]
  ELSE [ok |-> FALSE, mant |-> 0, exp |-> 0]

\* dots: the places of u that hold a dot
FloatDotted(neg, u, dots) ==
  IF Cardinality(dots) > 1 THEN [ok |-> FALSE, mant |-> 0, exp |-> 0]
  ELSE IF dots = {} THEN FloatDigits(neg, u, <<>>)
  ELSE FloatDigits(neg, SubSeq(u, 1, (CHOOSE k \in dots : TRUE) - 1),
                   SubSeq(u, (CHOOSE k \in dots : TRUE) + 1, Len(u)))

\* t: the text without the surrounding whitespace
FloatSigned(t) ==
  IF t # <<>> /\ Head(t) \in {"-", "+"}
  THEN FloatDotted(Head(t) = "-", Tail(t), {k \in 1..(Len(t) - 1) : t[k + 1] = "."})
  ELSE FloatDotted(FALSE, t, {k \in 1..Len(t) : t[k] = "."})

Float(s) == FloatSigned(Strip(s))

Abs(x) == IF x < 0 THEN -x ELSE x

Max(x, y) == IF x >= y THEN x ELSE y

\* A tolerance of 1e-08 in place of 1e-09
IsCloseLoose(x, y) == Abs(x - y) <= Max(Abs(x), Abs(y)) \div 100000000

\* abs(x - y) <= 1e-09 * max(abs(x), abs(y)), of two integers (the floats of
\* the code add a rounding error of some 1e-16 of the value, which decides
\* only differences that lie on the tolerance itself)
IsCloseScaled(x, y) == Abs(x - y) <= Max(Abs(x), Abs(y)) \div 1000000000

\* math.isclose(a, b) with its defaults rel_tol = 1e-09, abs_tol = 0.0, the
\* two values on a common denominator
IsClose(a, b) ==
  IsCloseScaled(a.mant * Pow10(Max(a.exp, b.exp) - a.exp),
                b.mant * Pow10(Max(a.exp, b.exp) - b.exp))

(***************************************************************************)
(* Property metadata (class attributes of Node)                            *)
(***************************************************************************)
list_properties ==
  {"AB", "AE", "AR", "AW", "CR", "DD", "LB", "LN", "MA", "SL", "SQ",
   "TB", "TR", "TW", "VW"}

scalar_properties ==
  {"AN", "AP", "AS", "B", "BL", "BM", "BR", "BT", "C", "CA", "CP", "DM",
   "DO", "DT", "EV", "FF", "FG", "GB", "GC", "GM", "GN", "GW", "HA",
   "HO", "IP", "IT", "IY", "KM", "KO", "MN", "N", "OB", "ON", "OT", "OW",
   "PB", "PC", "PL", "PM", "PW", "RE", "RO", "RU", "SE", "SO", "ST",
   "SU", "SZ", "TE", "TM", "UC", "US", "V", "W", "WL", "WR", "WT"}

text_properties ==
  {"AN", "AP", "AS", "BR", "BT", "C", "CA", "CP", "DT", "EV", "FG", "GC",
   "GN", "IP", "IY", "LB", "N", "ON", "OT", "PB", "PC", "PW", "RE", "RO",
   "RU", "SO", "SU", "US", "WR", "WT"}

real_properties == {"KM", "BL", "TM", "V", "WL"}

root_only_properties ==
  {"AP", "CA", "FF", "GM", "ST", "SZ", "AN", "BR", "BT", "CP", "DT",
   "EV", "GN", "GC", "ON", "OT", "PB", "PW", "PC", "RE", "RO", "RU",
   "SO", "TM", "US", "WR", "WT"}

setup_properties == {"AB", "AW", "AE", "PL"}

root_properties == root_only_properties \cup setup_properties

move_properties ==
  {"B", "W", "KO", "MN", "BM", "DO", "IT", "TE", "BL", "OB", "OW", "WL"}

move_required_properties == {"B", "W"}

\* Node.ignore_property_values: the set of values ignored for an identifier
default_ignore_property_values(pid) ==
  IF pid = "RE" THEN {<<"?">>}
  ELSE IF pid = "AP" THEN {any}
  ELSE {}

\* A table of the node types that tests the setup set first
node_types_setup_first ==
  <<[name |-> "setup", props |-> setup_properties],
    [name |-> "root", props |-> root_properties],
    [name |-> "move", props |-> move_properties]>>

\* Node.node_types, in the order the dict is iterated
node_types ==
  <<[name |-> "root", props |-> root_properties],
    [name |-> "setup", props |-> setup_properties],
    [name |-> "move", props |-> move_properties]>>

(***************************************************************************)
(* Node: dict operations                                                   *)
(***************************************************************************)
Keys(node) == {node[k].id : k \in 1..Len(node)}

Has(node, pid) == pid \in Keys(node)

\* node[pid]
Get(node, pid) == node[CHOOSE k \in 1..Len(node) : node[k].id = pid].val

\* node[pid] = v : an existing key keeps its place, a new one goes last
Put(node, pid, v) ==
  IF Has(node, pid)
  THEN [k \in 1..Len(node) |-> IF node[k].id = pid THEN [id |-> pid, val |-> v] ELSE node[k]]
  ELSE Append(node, [id |-> pid, val |-> v])

\* del node[pid]
Del(node, pid) == SelectSeq(node, LAMBDA it : it.id # pid)

(***************************************************************************)
(* Node                                                                    *)
(***************************************************************************)
\* Node.node_type: val is "None" for Python's None
node_type(self) ==
  LET props == Keys(self)
      hits == {k \in 1..Len(node_types) : props \cap node_types[k].props # {}}
  IN  IF props = {} \/ ("C" \in props /\ Get(self, "C") = <<>>)
      THEN [val |-> "None", err |-> NoErr]
      ELSE IF hits # {}
           THEN [val |-> node_types[CHOOSE k \in hits : \A j \in hits : k <= j].name,
                 err |-> NoErr]
           ELSE [val |-> "None", err |-> Raise("PropertyError")]

\* A test of the coordinates that is inverted
different_coordinates(self, other, player) == Get(self, player) # Get(other, player)

\* Node.equivalent, lines 641-643: self[player] == other[player]
same_coordinates(self, other, player) == Get(self, player) = Get(other, player)

\* A comparison of two move nodes that raises nothing: a node without
\* exactly one mover is equivalent to no node
equivalent_moves_no_raise(self, other, self_player, other_player) ==
  IF Cardinality(self_player) # 1 \/ Cardinality(other_player) # 1 \/ self_player # other_player
  THEN [val |-> FALSE, err |-> NoErr]
  ELSE [val |-> same_coordinates(self, other, CHOOSE p \in self_player : TRUE),
        err |-> NoErr]

\* Node.equivalent, lines 625-643: two move nodes
equivalent_moves(self, other, self_player, other_player) ==
  IF Cardinality(self_player) # 1 THEN [val |-> FALSE, err |-> Raise("PropertyError")]
  ELSE IF Cardinality(other_player) # 1 THEN [val |-> FALSE, err |-> Raise("PropertyError")]
  ELSE IF self_player # other_player THEN [val |-> FALSE, err |-> NoErr]
  ELSE [val |-> same_coordinates(self, other, CHOOSE p \in self_player : TRUE),
        err |-> NoErr]

\* Node.equivalent, lines 620-644: the types known
equivalent_types(self, other, my_type, other_type) ==
  IF my_type.err.kind # "none" THEN [val |-> FALSE, err |-> my_type.err]
  ELSE IF other_type.err.kind # "none" THEN [val |-> FALSE, err |-> other_type.err]
  ELSE IF my_type.val = "None" \/ other_type.val = "None" THEN [val |-> TRUE, err |-> NoErr]
  ELSE IF my_type.val # other_type.val THEN [val |-> FALSE, err |-> NoErr]
  ELSE IF my_type.val = "move"
       THEN equivalent_moves(self, other, Keys(self) \cap move_required_properties,
                             Keys(other) \cap move_required_properties)
       ELSE [val |-> TRUE, err |-> NoErr]

\* Node.equivalent
equivalent(self, other) == equivalent_types(self, other, node_type(self), node_type(other))

\* A prefix_comment that joins the prefix to whatever comment there is
node_prefix_comment_join(self, comment) ==
  IF Falsy(comment) THEN self
  ELSE Put(self, "C", comment \o <<"\n">> \o (IF Has(self, "C") THEN Get(self, "C") ELSE <<>>))

\* Node.prefix_comment
node_prefix_comment(self, comment) ==
  IF Falsy(comment) THEN self
  ELSE IF Has(self, "C") /\ Strip(Get(self, "C")) # <<>>
       THEN Put(self, "C", comment \o <<"\n">> \o Get(self, "C"))
       ELSE Put(self, "C", comment)

\* Node.merge_differing_scalar_property_values, lines 728-743: two non-empty
\* values; fs, fo are float(self_value), float(other_value)
compare_values(self, property_id, self_value, other_value, fs, fo) ==
  IF property_id \in real_properties /\ ~(fs.ok /\ fo.ok)
  THEN [node |-> self, err |-> Raise("ValueError")]
  ELSE IF property_id \in real_properties /\ IsClose(fs, fo)
  THEN [node |-> self, err |-> NoErr]
  ELSE IF property_id \in text_properties /\ Lower(self_value) = Lower(other_value)
  THEN [node |-> self, err |-> NoErr]
  ELSE [node |-> self,
        err |-> [kind |-> "MergeError", pid |-> property_id,
                 self_value |-> self_value, other_value |-> other_value]]

\* Node.merge_differing_scalar_property_values, lines 721-743: self_value is
\* None if the value of self was ignore-listed and deleted
use_value(self, property_id, self_value, other_value) ==
  IF Falsy(other_value) THEN [node |-> self, err |-> NoErr]
  ELSE IF Falsy(self_value)
  THEN [node |-> Put(self, property_id, other_value), err |-> NoErr]
  ELSE compare_values(self, property_id, self_value, other_value,
                      Float(self_value), Float(other_value))

\* Node.merge_differing_scalar_property_values
merge_differing_scalar_property_values(self, property_id, other_value, ignore_values) ==
  IF Get(self, property_id) \in ignore_values
  THEN use_value(Del(self, property_id), property_id, NoneVal, other_value)
  ELSE use_value(self, property_id, Get(self, property_id), other_value)

\* The caller's ignore table is a set of pairs <<identifier, value>>;
\* table.get(property_id, set())
ignore_get(ignore_property_values, property_id) ==
  {p[2] : p \in {q \in ignore_property_values : q[1] = property_id}}

\* list(s) for a set s of str: the iteration order of a set is the order of
\* the hashes, which differs from one interpreter run to the next; hashorder
\* lists the strings in the order of this run.
set_iter(s, hashorder) == SelectSeq(hashorder, LAMBDA x : x \in s)

Range(seq) == {seq[k] : k \in 1..Len(seq)}

\* A comment merge that always puts the prefix, whatever comments_everywhere
merge_comment_prefix_always(self, other_value, comment, comments_everywhere) ==
  IF Has(self, "C") /\ Get(self, "C") # <<>>
  THEN IF Strip(Get(self, "C")) # Strip(other_value)
       THEN Put(self, "C", Strip(Get(self, "C")) \o <<"\n", "\n">>
                             \o comment \o Strip(other_value))
       ELSE self
  ELSE Put(self, "C", comment \o Strip(other_value))

\* Node.merge, lines 681-696: the comment of `other`
merge_comment(self, other_value, comment, comments_everywhere) ==
  IF Has(self, "C") /\ Get(self, "C") # <<>>
  THEN IF Strip(Get(self, "C")) # Strip(other_value)
       THEN IF comments_everywhere
            THEN Put(self, "C", Strip(Get(self, "C")) \o <<"\n", "\n">>
                                  \o comment \o Strip(other_value))
            ELSE Put(self, "C", Strip(Get(self, "C")) \o <<"\n", "\n">>
                                  \o Strip(other_value))
       ELSE self
  ELSE IF comments_everywhere
       THEN Put(self, "C", comment \o Strip(other_value))
       ELSE Put(self, "C", Strip(other_value))

\* Node.merge, lines 703-707: the list of `other` into the list of self
merge_list(self, property_id, extras, hashorder) ==
  IF extras # {}
  THEN Put(self, property_id, Get(self, property_id) \o set_iter(extras, hashorder))
  ELSE self

\* Node.merge, lines 677-712: the body of its loop for one item of `other`,
\* ignore_values computed
merge_value(self, property_id, other_value, comment, comments_everywhere, ignore_values, hashorder) ==
  IF property_id \in scalar_properties
     /\ (any \in ignore_values \/ other_value \in ignore_values)
  THEN [node |-> self, err |-> NoErr]
  ELSE IF property_id = "C"
  THEN [node |-> merge_comment(self, other_value, comment, comments_everywhere),
        err |-> NoErr]
  ELSE IF Has(self, property_id)
  THEN IF property_id \in scalar_properties
       THEN IF other_value # Get(self, property_id)
            THEN merge_differing_scalar_property_values(
                   self, property_id, other_value, ignore_values)
            ELSE [node |-> self, err |-> NoErr]
       ELSE [node |-> merge_list(self, property_id,
                                 Range(other_value) \ Range(Get(self, property_id)),
                                 hashorder),
             err |-> NoErr]
  ELSE [node |-> Put(self, property_id, other_value), err |-> NoErr]

\* Node.merge, lines 673-712: the body of its loop for one item of `other`
merge_item(self, property_id, other_value, comment, comments_everywhere, ignore_property_values, hashorder) ==
  merge_value(self, property_id, other_value, comment, comments_everywhere,
              default_ignore_property_values(property_id)
                \cup ignore_get(ignore_property_values, property_id),
              hashorder)

RECURSIVE merge_items(_, _, _, _, _, _, _)
RECURSIVE merge_items_from(_, _, _, _, _, _, _)

\* Node.merge, the loop from the item after k on, r the outcome of item k
merge_items_from(r, other, k, comment, comments_everywhere, ignore_property_values, hashorder) ==
  IF r.err.kind # "none" THEN r
  ELSE merge_items(r.node, other, k + 1, comment, comments_everywhere,
                   ignore_property_values, hashorder)

\* Node.merge, the loop over the items of `other` from item k on
merge_items(self, other, k, comment, comments_everywhere, ignore_property_values, hashorder) ==
  IF k > Len(other) THEN [node |-> self, err |-> NoErr]
  ELSE merge_items_from(
         merge_item(self, other[k].id, other[k].val, comment, comments_everywhere,
                    ignore_property_values, hashorder),
         other, k, comment, comments_everywhere, ignore_property_values, hashorder)

\* Node.merge: the node `self` becomes, and what was raised
node_merge(self, other, comment, comments_everywhere, ignore_property_values, hashorder) ==
  merge_items(self, other, 1,
              IF comment = NoneVal THEN <<>> ELSE comment \o <<"\n">>,
              comments_everywhere, ignore_property_values, hashorder)

(***************************************************************************)
(* GameTree                                                                *)
(***************************************************************************)
\* Node.deepcopy: a new dict with copies of the values
node_deepcopy(self) == self

\* A deepcopy that hands back the receiver (the copy forgotten)
game_tree_deepcopy_alias(self) == [obj |-> "self", val |-> self]

\* GameTree.deepcopy.  obj tells which object the caller gets: "new" is a
\* tree that shares nothing with the receiver, "self" the receiver itself.
RECURSIVE game_tree_deepcopy(_)
game_tree_deepcopy(self) ==
  [obj |-> "new",
   val |-> [nodes |-> [k \in 1..Len(self.nodes) |-> node_deepcopy(self.nodes[k])],
            branches |-> [k \in 1..Len(self.branches) |->
                            game_tree_deepcopy(self.branches[k]).val]]]

\* GameTree.prefix_comment
RECURSIVE game_tree_prefix_comment(_, _)
game_tree_prefix_comment(self, comment) ==
  IF Falsy(comment) THEN self
  ELSE IF self.nodes # <<>>
       THEN [self EXCEPT !.nodes[1] = node_prefix_comment(self.nodes[1], comment)]
       ELSE [self EXCEPT !.branches =
               [k \in 1..Len(self.branches) |->
                  game_tree_prefix_comment(self.branches[k], comment)]]

\* A constructor that drops its comment argument
GameTree_no_comment(nodelist, branches, comment) ==
  [nodes |-> nodelist, branches |-> branches]

\* GameTree.__init__ for a nodelist that is a list
GameTree(nodelist, branches, comment) ==
  game_tree_prefix_comment([nodes |-> nodelist, branches |-> branches], comment)

\* A normalize that stops at the first tree of two or more branches
RECURSIVE game_tree_normalize_top(_)
game_tree_normalize_top(self) ==
  IF Len(self.branches) = 1
  THEN game_tree_normalize_top([nodes |-> self.nodes \o self.branches[1].nodes,
                                branches |-> self.branches[1].branches])
  ELSE self

\* A normalize that forgets the branches of the branch it splices
RECURSIVE game_tree_normalize_drop(_)
game_tree_normalize_drop(self) ==
  IF Len(self.branches) = 1
  THEN [nodes |-> self.nodes \o self.branches[1].nodes, branches |-> <<>>]
  ELSE [nodes |-> self.nodes,
        branches |-> [k \in 1..Len(self.branches) |->
                        game_tree_normalize_drop(self.branches[k])]]

\* GameTree.normalize
RECURSIVE game_tree_normalize(_)
game_tree_normalize(self) ==
  IF Len(self.branches) = 0 THEN self
  ELSE IF Len(self.branches) = 1
       THEN game_tree_normalize([nodes |-> self.nodes \o self.branches[1].nodes,
                                 branches |-> self.branches[1].branches])
       ELSE [nodes |-> self.nodes,
             branches |-> [k \in 1..Len(self.branches) |->
                             game_tree_normalize(self.branches[k])]]

\* GameTree([Node(C='')]), the branch merge gives a branchless `self`
placeholder == [nodes |-> <<(<<[id |-> "C", val |-> <<>>]>>)>>, branches |-> <<>>]

Min(x, y) == IF x <= y THEN x ELSE y

\* del seq[0] in place of del seq[k]
RemoveFirst(seq, k) == Tail(seq)

\* del seq[k] (k counted from 1)
RemoveAt(seq, k) == SubSeq(seq, 1, k - 1) \o SubSeq(seq, k + 1, Len(seq))

\* GameTree.merge, line 468: eq is the outcome of equivalent
RECURSIVE find_branch(_, _, _)
RECURSIVE find_branch_from(_, _, _, _)
find_branch_from(self_branch, other_branches, k, eq) ==
  IF eq.err.kind # "none" THEN [idx |-> 0, err |-> eq.err]
  ELSE IF eq.val THEN [idx |-> k, err |-> NoErr]
  ELSE find_branch(self_branch, other_branches, k + 1)

\* GameTree.merge, lines 466-468: the index in other.branches of the first
\* branch whose first node is equivalent to self_branch's, 0 if there is none
find_branch(self_branch, other_branches, k) ==
  IF k > Len(other_branches) THEN [idx |-> 0, err |-> NoErr]
  ELSE IF self_branch.nodes = <<>> \/ other_branches[k].nodes = <<>>
  THEN [idx |-> 0, err |-> Raise("IndexError")]
  ELSE find_branch_from(self_branch, other_branches, k,
                        equivalent(self_branch.nodes[1], other_branches[k].nodes[1]))

RECURSIVE game_tree_merge(_, _, _, _, _, _)
RECURSIVE merge_trunk(_, _, _, _, _, _, _)
RECURSIVE merge_trunk_merged(_, _, _, _, _, _, _, _)
RECURSIVE merge_trunk_node(_, _, _, _, _, _, _, _)
RECURSIVE merge_branches(_, _, _, _, _, _, _)
RECURSIVE merge_branches_merged(_, _, _, _, _, _, _, _, _)
RECURSIVE merge_branches_found(_, _, _, _, _, _, _, _)

\* GameTree.merge, lines 428-433: the rest of both trunks made into branches
diverge(self, k, self_branch, other, other_branch) ==
  [self |-> [nodes |-> SubSeq(self.nodes, 1, k - 1),
             branches |-> <<self_branch, other_branch>>],
   \* other[k] is the node object other_branch starts with
   other |-> [other EXCEPT !.nodes[k] = other_branch.nodes[1]],
   err |-> NoErr, broke |-> TRUE]

\* GameTree.merge, lines 424-426: m is the outcome of my_node.merge
merge_trunk_merged(self, other, k, comment, comments_everywhere, ignore_property_values, hashorder, m) ==
  IF m.err.kind # "none"
  THEN [self |-> [self EXCEPT !.nodes[k] = m.node], other |-> other,
        err |-> m.err, broke |-> FALSE]
  ELSE merge_trunk([self EXCEPT !.nodes[k] = m.node], other, k + 1, comment,
                   comments_everywhere, ignore_property_values, hashorder)

\* GameTree.merge, lines 423-433: eq is the outcome of my_node.equivalent
merge_trunk_node(self, other, k, comment, comments_everywhere, ignore_property_values, hashorder, eq) ==
  IF eq.err.kind # "none"
  THEN [self |-> self, other |-> other, err |-> eq.err, broke |-> FALSE]
  ELSE IF eq.val
  THEN merge_trunk_merged(self, other, k, comment, comments_everywhere,
                          ignore_property_values, hashorder,
                          node_merge(self.nodes[k], other.nodes[k], comment,
                                     comments_everywhere, ignore_property_values,
                                     hashorder))
  ELSE diverge(self, k,
               GameTree(SubSeq(self.nodes, k, Len(self.nodes)), self.branches, NoneVal),
               other,
               GameTree(SubSeq(other.nodes, k, Len(other.nodes)), other.branches, comment))

\* GameTree.merge, lines 422-433: the loop over the zipped trunks from index
\* k on.  broke: the loop ended in its break.
merge_trunk(self, other, k, comment, comments_everywhere, ignore_property_values, hashorder) ==
  IF k > Len(self.nodes) \/ k > Len(other.nodes)
  THEN [self |-> self, other |-> other, err |-> NoErr, broke |-> FALSE]
  ELSE merge_trunk_node(self, other, k, comment, comments_everywhere,
                        ignore_property_values, hashorder,
                        equivalent(self.nodes[k], other.nodes[k]))

\* GameTree.merge, lines 469-473: r is the outcome of self_branch.merge with
\* the branch of other at idx
merge_branches_merged(self_branches, other_branches, j, comment, comments_everywhere, ignore_property_values, hashorder, idx, r) ==
  IF r.err.kind # "none"
  THEN [self_branches |-> [self_branches EXCEPT ![j] = r.self],
        other_branches |-> [other_branches EXCEPT ![idx] = r.arg],
        err |-> r.err]
  ELSE merge_branches([self_branches EXCEPT ![j] = r.self],
                      RemoveAt(other_branches, idx), j + 1, comment,
                      comments_everywhere, ignore_property_values, hashorder)

\* GameTree.merge, lines 467-473: f is the branch of other found for the
\* branch of self at j
merge_branches_found(self_branches, other_branches, j, comment, comments_everywhere, ignore_property_values, hashorder, f) ==
  IF f.err.kind # "none"
  THEN [self_branches |-> self_branches, other_branches |-> other_branches,
        err |-> f.err]
  ELSE IF f.idx = 0
  THEN merge_branches(self_branches, other_branches, j + 1, comment,
                      comments_everywhere, ignore_property_values, hashorder)
  ELSE merge_branches_merged(self_branches, other_branches, j, comment,
                             comments_everywhere, ignore_property_values, hashorder,
                             f.idx,
                             game_tree_merge(self_branches[j], other_branches[f.idx],
                                             comment, comments_everywhere,
                                             ignore_property_values, hashorder))

\* GameTree.merge, lines 466-473: the loop over self.branches from index j on
merge_branches(self_branches, other_branches, j, comment, comments_everywhere, ignore_property_values, hashorder) ==
  IF j > Len(self_branches)
  THEN [self_branches |-> self_branches, other_branches |-> other_branches, err |-> NoErr]
  ELSE merge_branches_found(self_branches, other_branches, j, comment,
                            comments_everywhere, ignore_property_values, hashorder,
                            find_branch(self_branches[j], other_branches, 1))

\* GameTree.merge, lines 443-447: self becomes the object `other`
copy_other(other0) == [self |-> other0, other |-> other0, err |-> NoErr]

\* GameTree.merge, lines 451-455: the longer trunk of self made a branch
self_remainder(self, other, n) ==
  IF Len(self.nodes) > Len(other.nodes) /\ other.branches # <<>>
  THEN [nodes |-> SubSeq(self.nodes, 1, n),
        branches |-> <<GameTree(SubSeq(self.nodes, n + 1, Len(self.nodes)),
                                self.branches, NoneVal)>>]
  ELSE self

\* A merge that cuts the longer trunk of other and forgets the rest
other_remainder_discard(self, other, n, comment) ==
  IF Len(other.nodes) > Len(self.nodes)
  THEN [nodes |-> SubSeq(other.nodes, 1, n), branches |-> <<>>]
  ELSE other

\* GameTree.merge, lines 457-460: the longer trunk of other made a branch
other_remainder(self, other, n, comment) ==
  IF Len(other.nodes) > Len(self.nodes)
  THEN [nodes |-> SubSeq(other.nodes, 1, n),
        branches |-> <<GameTree(SubSeq(other.nodes, n + 1, Len(other.nodes)),
                                other.branches, comment)>>]
  ELSE other

\* An extend that puts the branches of other in front of those of self
extend_branches_front(self, other, self_branches, prefixed) ==
  [self |-> [self EXCEPT !.branches = prefixed \o self_branches],
   other |-> [other EXCEPT !.branches = prefixed],
   err |-> NoErr]

\* GameTree.merge, lines 474-476: prefixed are the branches of other left
\* over, the prefix on each
extend_branches(self, other, self_branches, prefixed) ==
  [self |-> [self EXCEPT !.branches = self_branches \o prefixed],
   other |-> [other EXCEPT !.branches = prefixed],
   err |-> NoErr]

\* GameTree.merge, lines 474-476: mb is the outcome of the loop over the
\* branches
merged_branches(self, other, comment, mb) ==
  IF mb.err.kind # "none"
  THEN [self |-> [self EXCEPT !.branches = mb.self_branches],
        other |-> [other EXCEPT !.branches = mb.other_branches],
        err |-> mb.err]
  ELSE extend_branches(self, other, mb.self_branches,
                       [k \in 1..Len(mb.other_branches) |->
                          game_tree_prefix_comment(mb.other_branches[k], comment)])

\* GameTree.merge, lines 465-476: self has a branch, other has one
merge_all_branches(self, other, comment, comments_everywhere, ignore_property_values, hashorder) ==
  merged_branches(self, other, comment,
                  merge_branches(self.branches, other.branches, 1, comment,
                                 comments_everywhere, ignore_property_values, hashorder))

\* GameTree.merge, lines 461-476: the trunks of self and other of one length
merge_equal_length(self, other, comment, comments_everywhere, ignore_property_values, hashorder) ==
  IF other.branches = <<>>
  THEN [self |-> self, other |-> other, err |-> NoErr]
  ELSE merge_all_branches(IF self.branches = <<>>
                          THEN [self EXCEPT !.branches = <<placeholder>>]
                          ELSE self,
                          other, comment, comments_everywhere, ignore_property_values,
                          hashorder)

\* GameTree.merge, lines 434-476: what follows a loop that ended without
\* break.  self and other are the trees as the loop left them, n is the
\* number of pairs of nodes the loop went through.
merge_rest_from(self, other, n, comment, comments_everywhere, ignore_property_values, hashorder) ==
  IF n = 0 /\ self.nodes # <<>> /\ other.branches = <<>>
  THEN [self |-> self, other |-> other, err |-> NoErr]
  ELSE IF n = 0 /\ self.nodes = <<>> /\ self.branches = <<>>
  THEN copy_other(IF other.nodes # <<>>
                  THEN [other EXCEPT !.nodes[1] = node_prefix_comment(other.nodes[1], comment)]
                  ELSE other)
  ELSE merge_equal_length(self_remainder(self, other, n),
                          other_remainder(self, other, n, comment),
                          comment, comments_everywhere, ignore_property_values, hashorder)

merge_rest(self, other, comment, comments_everywhere, ignore_property_values, hashorder) ==
  merge_rest_from(self, other, Min(Len(self.nodes), Len(other.nodes)), comment,
                  comments_everywhere, ignore_property_values, hashorder)

\* GameTree.merge, lines 422-476: t is the outcome of the loop over the
\* trunks
merge_after_trunk(t, comment, comments_everywhere, ignore_property_values, hashorder) ==
  IF t.err.kind # "none" \/ t.broke
  THEN [self |-> t.self, other |-> t.other, err |-> t.err]
  ELSE merge_rest(t.self, t.other, comment, comments_everywhere,
                  ignore_property_values, hashorder)

\* GameTree.merge, line 421: the parameter `other` is the caller's tree; the
\* name is bound to copy from here on, and r is what became of self and of
\* that object.  arg: the caller's tree after the call.
merge_outcome(other, copy, r) ==
  [self |-> r.self,
   arg |-> IF copy.obj = "new" THEN other ELSE r.other,
   err |-> r.err]

\* GameTree.merge, lines 421-476: copy is the outcome of other.deepcopy()
merge_copy(self, other, copy, comment, comments_everywhere, ignore_property_values, hashorder) ==
  merge_outcome(other, copy,
                merge_after_trunk(
                  merge_trunk(self, copy.val, 1, comment, comments_everywhere,
                              ignore_property_values, hashorder),
                  comment, comments_everywhere, ignore_property_values, hashorder))

\* GameTree.merge.  self: the receiver after the call; arg: the tree that was
\* passed as `other`, after the call; err: what the call raised.
game_tree_merge(self, other, comment, comments_everywhere, ignore_property_values, hashorder) ==
  merge_copy(self, other, game_tree_deepcopy(other), comment, comments_everywhere,
             ignore_property_values, hashorder)

(***************************************************************************)
(* Collection                                                              *)
(***************************************************************************)
\* Collection.normalize
collection_normalize(self) ==
  [k \in 1..Len(self) |-> game_tree_normalize(self[k])]

\* A Collection.merge that returns without normalizing
collection_merged_no_normalize(self, other, r) ==
  [self |-> [self EXCEPT ![1] = r.self], arg |-> [other EXCEPT ![1] = r.arg], err |-> r.err]

\* Collection.merge, lines 276-278: r is the outcome of self[0].merge
collection_merged(self, other, r) ==
  IF r.err.kind # "none"
  THEN [self |-> [self EXCEPT ![1] = r.self], arg |-> [other EXCEPT ![1] = r.arg],
        err |-> r.err]
  ELSE [self |-> collection_normalize([self EXCEPT ![1] = r.self]),
        arg |-> [other EXCEPT ![1] = r.arg], err |-> NoErr]

\* Collection.merge
collection_merge(self, other, comment, comments_everywhere, ignore_property_values, hashorder) ==
  IF Len(self) # 1 \/ Len(other) # 1
  THEN [self |-> self, arg |-> other, err |-> Raise("MergeError")]
  ELSE collection_merged(self, other,
                         game_tree_merge(self[1], other[1], comment, comments_everywhere,
                                         ignore_property_values, hashorder))

(***************************************************************************)
(* Objects.  The operators above compute values; these follow the objects  *)
(* that hold them.  A GameTree, a Node and a list that is the value of a   *)
(* property are written with id, a name of the object: a tree is id, nodes *)
(* and branches, a node is id, val (the Node above) and lists (the ids of  *)
(* its list values, by property).  An object made from another is named    *)
(* after it, so two objects have one id only if they are one object.  call *)
(* holds the arguments of a merge, the iteration order of the run and      *)
(* number, the count of the merges made on the objects so far.             *)
(***************************************************************************)
Named(id, mark, arg) == id \o <<mark, arg>>

RECURSIVE Concat(_)
Concat(seqs) == IF seqs = <<>> THEN <<>> ELSE Head(seqs) \o Concat(Tail(seqs))

\* The items of a node whose values are lists
list_items(node) == SelectSeq(node, LAMBDA item : item.id \in list_properties)

\* The Node object id with the properties of node, each list a new object
node_object(node, id) ==
  [id |-> id, val |-> node,
   lists |-> [k \in 1..Len(list_items(node)) |->
                [id |-> list_items(node)[k].id,
                 val |-> Named(id, "list", list_items(node)[k].id)]]]

\* The GameTree object id with the content of self, every Node, GameTree
\* and list in it a new object: what the Parser builds, lines 1108-1220
RECURSIVE tree_object(_, _)
tree_object(self, id) ==
  [id |-> id,
   nodes |-> [k \in 1..Len(self.nodes) |->
                node_object(self.nodes[k], Named(id, "node", ToString(k)))],
   branches |-> [k \in 1..Len(self.branches) |->
                   tree_object(self.branches[k], Named(id, "branch", ToString(k)))]]

\* The value an object holds
RECURSIVE tree_value(_)
tree_value(self) ==
  [nodes |-> [k \in 1..Len(self.nodes) |-> self.nodes[k].val],
   branches |-> [k \in 1..Len(self.branches) |-> tree_value(self.branches[k])]]

\* Node.deepcopy, lines 581-584: copy.deepcopy makes a new dict and a new
\* list for every list in it
node_object_deepcopy(self, call) ==
  [id |-> Named(self.id, "copy", ToString(call.number)),
   val |-> node_deepcopy(self.val),
   lists |-> [k \in 1..Len(self.lists) |->
                [self.lists[k] EXCEPT !.val = Named(@, "copy", ToString(call.number))]]]

\* A GameTree.deepcopy that makes a new tree of the same nodes and branches
tree_object_deepcopy_shallow(self, call) ==
  [self EXCEPT !.id = Named(@, "copy", ToString(call.number))]

\* GameTree.deepcopy, lines 320-324
RECURSIVE tree_object_deepcopy(_, _)
tree_object_deepcopy(self, call) ==
  [id |-> Named(self.id, "copy", ToString(call.number)),
   nodes |-> [k \in 1..Len(self.nodes) |-> node_object_deepcopy(self.nodes[k], call)],
   branches |-> [k \in 1..Len(self.branches) |->
                   tree_object_deepcopy(self.branches[k], call)]]

\* Node.prefix_comment, lines 755-761: the comment is a str
node_object_prefix_comment(self, comment) ==
  [self EXCEPT !.val = node_prefix_comment(@, comment)]

\* GameTree.prefix_comment
RECURSIVE tree_object_prefix_comment(_, _)
tree_object_prefix_comment(self, comment) ==
  IF Falsy(comment) THEN self
  ELSE IF self.nodes # <<>>
       THEN [self EXCEPT !.nodes[1] = node_object_prefix_comment(@, comment)]
       ELSE [self EXCEPT !.branches =
               [k \in 1..Len(self.branches) |->
                  tree_object_prefix_comment(self.branches[k], comment)]]

\* GameTree.__init__, lines 298-318, for a nodelist that is a list: a new
\* tree id of the Node objects of nodelist and the GameTree objects of
\* branches
GameTreeObject(id, nodelist, branches, comment) ==
  tree_object_prefix_comment([id |-> id, nodes |-> nodelist, branches |-> branches],
                             comment)

\* GameTree.normalize, lines 402-410: the nodes and the branches of a lone
\* branch become those of self, and the branch is dropped
RECURSIVE tree_object_normalize(_)
tree_object_normalize(self) ==
  IF Len(self.branches) = 0 THEN self
  ELSE IF Len(self.branches) = 1
       THEN tree_object_normalize([self EXCEPT
                                     !.nodes = @ \o self.branches[1].nodes,
                                     !.branches = self.branches[1].branches])
       ELSE [self EXCEPT !.branches =
               [k \in 1..Len(self.branches) |-> tree_object_normalize(self.branches[k])]]

\* Node.merge, lines 701-712: the lists of self after the merge, node being
\* its properties then.  A list self had is extended in place, line 707; a
\* list it gets is other_value[:], line 712, other being the copy of line
\* 666
merged_lists(self, other, node, call) ==
  [k \in 1..Len(list_items(node)) |->
     [id |-> list_items(node)[k].id,
      val |-> IF Has(self.lists, list_items(node)[k].id)
              THEN Get(self.lists, list_items(node)[k].id)
              ELSE Named(Get(other.lists, list_items(node)[k].id), "slice",
                         ToString(call.number))]]

\* Node.merge, lines 673-712: m is the outcome of the loop over the items of
\* other
node_object_merged(self, other, call, m) ==
  [node |-> [id |-> self.id, val |-> m.node,
             lists |-> merged_lists(self, other, m.node, call)],
   err |-> m.err]

\* Node.merge, copy being other.deepcopy() of line 666
node_object_merge_copy(self, copy, call) ==
  node_object_merged(self, copy, call,
                     node_merge(self.val, copy.val, call.comment,
                                call.comments_everywhere, call.ignore_property_values,
                                call.hashorder))

\* Node.merge
node_object_merge(self, other, call) ==
  node_object_merge_copy(self, node_object_deepcopy(other, call), call)

\* GameTree([Node(C='')]), line 464: a new tree of a new node
placeholder_object(id) ==
  [id |-> id, nodes |-> <<node_object(placeholder.nodes[1], Named(id, "node", "1"))>>,
   branches |-> <<>>]

RECURSIVE tree_object_merge(_, _, _)
RECURSIVE object_merge_trunk(_, _, _, _)
RECURSIVE object_merge_branches(_, _, _, _)

\* GameTree.merge, lines 428-433: the rest of both trunks made into branches
object_diverge(self, other, k, call) ==
  [self |-> [self EXCEPT
               !.nodes = SubSeq(self.nodes, 1, k - 1),
               !.branches =
                 <<GameTreeObject(Named(self.id, "self_branch", ToString(call.number)),
                                  SubSeq(self.nodes, k, Len(self.nodes)),
                                  self.branches, NoneVal),
                   GameTreeObject(Named(other.id, "other_branch", ToString(call.number)),
                                  SubSeq(other.nodes, k, Len(other.nodes)),
                                  other.branches, call.comment)>>],
   other |-> other, err |-> NoErr, broke |-> TRUE]

\* GameTree.merge, lines 424-426: m is the outcome of my_node.merge
object_merge_trunk_merged(self, other, k, call, m) ==
  IF m.err.kind # "none"
  THEN [self |-> [self EXCEPT !.nodes[k] = m.node], other |-> other, err |-> m.err,
        broke |-> FALSE]
  ELSE object_merge_trunk([self EXCEPT !.nodes[k] = m.node], other, k + 1, call)

\* GameTree.merge, lines 423-433: eq is the outcome of my_node.equivalent
object_merge_trunk_node(self, other, k, call, eq) ==
  IF eq.err.kind # "none"
  THEN [self |-> self, other |-> other, err |-> eq.err, broke |-> FALSE]
  ELSE IF eq.val
  THEN object_merge_trunk_merged(self, other, k, call,
                                 node_object_merge(self.nodes[k], other.nodes[k], call))
  ELSE object_diverge(self, other, k, call)

\* GameTree.merge, lines 422-433: the loop over the zipped trunks from index
\* k on
object_merge_trunk(self, other, k, call) ==
  IF k > Len(self.nodes) \/ k > Len(other.nodes)
  THEN [self |-> self, other |-> other, err |-> NoErr, broke |-> FALSE]
  ELSE object_merge_trunk_node(self, other, k, call,
                               equivalent(self.nodes[k].val, other.nodes[k].val))

\* GameTree.merge, lines 469-473: r is the outcome of self_branch.merge with
\* the branch of other at idx
object_merge_branches_merged(self_branches, other_branches, j, call, idx, r) ==
  IF r.err.kind # "none"
  THEN [self_branches |-> [self_branches EXCEPT ![j] = r.self],
        other_branches |-> other_branches, err |-> r.err]
  ELSE object_merge_branches([self_branches EXCEPT ![j] = r.self],
                             RemoveAt(other_branches, idx), j + 1, call)

\* GameTree.merge, lines 467-473: f is the branch of other found for the
\* branch of self at j
object_merge_branches_found(self_branches, other_branches, j, call, f) ==
  IF f.err.kind # "none"
  THEN [self_branches |-> self_branches, other_branches |-> other_branches,
        err |-> f.err]
  ELSE IF f.idx = 0
  THEN object_merge_branches(self_branches, other_branches, j + 1, call)
  ELSE object_merge_branches_merged(self_branches, other_branches, j, call, f.idx,
                                    tree_object_merge(self_branches[j],
                                                      other_branches[f.idx], call))

\* GameTree.merge, lines 466-473: the loop over self.branches from index j on
object_merge_branches(self_branches, other_branches, j, call) ==
  IF j > Len(self_branches)
  THEN [self_branches |-> self_branches, other_branches |-> other_branches,
        err |-> NoErr]
  ELSE object_merge_branches_found(
         self_branches, other_branches, j, call,
         find_branch(tree_value(self_branches[j]),
                     [k \in 1..Len(other_branches) |-> tree_value(other_branches[k])],
                     1))

\* GameTree.merge, lines 443-447: self[:] = other and self.branches =
\* other.branches; the tree stays the object it was
object_copy_other(self, other, comment) ==
  [self |-> [self EXCEPT
               !.nodes = IF other.nodes # <<>>
                         THEN [other.nodes EXCEPT
                                 ![1] = node_object_prefix_comment(@, comment)]
                         ELSE other.nodes,
               !.branches = other.branches],
   err |-> NoErr]

\* GameTree.merge, lines 451-455: the longer trunk of self made a branch
object_self_remainder(self, other, n, call) ==
  IF Len(self.nodes) > Len(other.nodes) /\ other.branches # <<>>
  THEN [self EXCEPT
          !.nodes = SubSeq(self.nodes, 1, n),
          !.branches =
            <<GameTreeObject(Named(self.id, "self_branch", ToString(call.number)),
                             SubSeq(self.nodes, n + 1, Len(self.nodes)),
                             self.branches, NoneVal)>>]
  ELSE self

\* GameTree.merge, lines 457-460: the longer trunk of other made a branch
object_other_remainder(self, other, n, call) ==
  IF Len(other.nodes) > Len(self.nodes)
  THEN [other EXCEPT
          !.nodes = SubSeq(other.nodes, 1, n),
          !.branches =
            <<GameTreeObject(Named(other.id, "other_branch", ToString(call.number)),
                             SubSeq(other.nodes, n + 1, Len(other.nodes)),
                             other.branches, call.comment)>>]
  ELSE other

\* GameTree.merge, lines 474-476: mb is the outcome of the loop over the
\* branches; the branches of other left over are put behind those of self
object_merged_branches(self, call, mb) ==
  IF mb.err.kind # "none"
  THEN [self |-> [self EXCEPT !.branches = mb.self_branches], err |-> mb.err]
  ELSE [self |-> [self EXCEPT !.branches =
                    mb.self_branches \o
                      [k \in 1..Len(mb.other_branches) |->
                         tree_object_prefix_comment(mb.other_branches[k], call.comment)]],
        err |-> NoErr]

\* GameTree.merge, lines 461-476: the trunks of self and other of one length
object_merge_equal_length(self, other, call) ==
  IF other.branches = <<>> THEN [self |-> self, err |-> NoErr]
  ELSE object_merged_branches(
         self, call,
         object_merge_branches(
           IF self.branches = <<>>
           THEN <<placeholder_object(Named(self.id, "placeholder", ToString(call.number)))>>
           ELSE self.branches,
           other.branches, 1, call))

\* GameTree.merge, lines 434-476: what follows a loop that ended without
\* break, n being the number of pairs of nodes the loop went through
object_merge_rest(self, other, n, call) ==
  IF n = 0 /\ self.nodes # <<>> /\ other.branches = <<>>
  THEN [self |-> self, err |-> NoErr]
  ELSE IF n = 0 /\ self.nodes = <<>> /\ self.branches = <<>>
  THEN object_copy_other(self, other, call.comment)
  ELSE object_merge_equal_length(object_self_remainder(self, other, n, call),
                                 object_other_remainder(self, other, n, call), call)

\* GameTree.merge, lines 422-476: t is the outcome of the loop over the
\* trunks
object_merge_after_trunk(t, call) ==
  IF t.err.kind # "none" \/ t.broke THEN [self |-> t.self, err |-> t.err]
  ELSE object_merge_rest(t.self, t.other,
                         Min(Len(t.self.nodes), Len(t.other.nodes)), call)

\* GameTree.merge: the receiver after the call and what the call raised
tree_object_merge(self, other, call) ==
  object_merge_after_trunk(
    object_merge_trunk(self, tree_object_deepcopy(other, call), 1, call), call)

\* Collection.normalize, lines 255-256
collection_object_normalize(self) ==
  [k \in 1..Len(self) |-> tree_object_normalize(self[k])]

\* Collection.merge, lines 276-278: r is the outcome of self[0].merge
collection_object_merged(self, r) ==
  IF r.err.kind # "none" THEN [self |-> [self EXCEPT ![1] = r.self], err |-> r.err]
  ELSE [self |-> collection_object_normalize([self EXCEPT ![1] = r.self]),
        err |-> NoErr]

\* Collection.merge, lines 258-278
collection_object_merge(self, other, call) ==
  IF Len(self) # 1 \/ Len(other) # 1 THEN [self |-> self, err |-> Raise("MergeError")]
  ELSE collection_object_merged(self, tree_object_merge(self[1], other[1], call))

\* The ids of the Node, GameTree and list objects of a tree, one for each
\* place an object is held at
RECURSIVE tree_ids(_)
node_ids(self) == <<self.id>> \o [k \in 1..Len(self.lists) |-> self.lists[k].val]

tree_ids(self) ==
  <<self.id>> \o Concat([k \in 1..Len(self.nodes) |-> node_ids(self.nodes[k])])
    \o Concat([k \in 1..Len(self.branches) |-> tree_ids(self.branches[k])])

collection_ids(self) == Concat([k \in 1..Len(self) |-> tree_ids(self[k])])

\* The arguments a of a merge, in the run that iterates in the order h, the
\* merge being number n
CallOf(a, h, n) ==
  [comment |-> a.comment, comments_everywhere |-> a.comments_everywhere,
   ignore_property_values |-> a.ignore_property_values, hashorder |-> h, number |-> n]

\* The Collection of a Collection object
collection_value(self) == [k \in 1..Len(self) |-> tree_value(self[k])]

\* No object is followed
NoObjects == [target |-> <<>>, sources |-> <<>>, number |-> 0, err |-> NoErr]

(***************************************************************************)
(* Bytes and charsets.  A byte of the ASCII range is the one-character     *)
(* string of its character; the other bytes of the model are named by      *)
(* their hexadecimal value.  A character outside ASCII is named by its     *)
(* code point.                                                             *)
(***************************************************************************)
HighBytes == <<"x82", "x83", "xA9", "xC2", "xC3">>

HighByteCodes == <<130, 131, 169, 194, 195>>

HighChars == <<"U+0082", "U+0083", "U+00A9", "U+00C2", "U+00C3", "U+00E9">>

HighCharCodes == <<130, 131, 169, 194, 195, 233>>

IsHighByte(b) == \E k \in 1..Len(HighBytes) : HighBytes[k] = b

ByteCode(b) == HighByteCodes[CHOOSE k \in 1..Len(HighBytes) : HighBytes[k] = b]

ByteOfCode(n) == HighBytes[CHOOSE k \in 1..Len(HighBytes) : HighByteCodes[k] = n]

IsHighChar(ch) == \E k \in 1..Len(HighChars) : HighChars[k] = ch

CharCode(ch) == HighCharCodes[CHOOSE k \in 1..Len(HighChars) : HighChars[k] = ch]

CharOfCode(n) == HighChars[CHOOSE k \in 1..Len(HighChars) : HighCharCodes[k] = n]

\* TEXT_ENCODING and NAME_ENCODING
TEXT_ENCODING == <<"U", "T", "F", "-", "8">>

NAME_ENCODING == <<"A", "S", "C", "I", "I">>

\* Parser.encoding
default_encoding == <<"l", "a", "t", "i", "n", "-", "1">>

\* The codec Python finds for the name of an encoding ("unknown": the
\* lookup raises LookupError)
codec(encoding) ==
  IF Lower(encoding) \in {<<"u", "t", "f", "-", "8">>, <<"u", "t", "f", "8">>} THEN "utf-8"
  ELSE IF Lower(encoding) \in {<<"l", "a", "t", "i", "n", "-", "1">>,
                               <<"l", "a", "t", "i", "n", "1">>,
                               <<"i", "s", "o", "-", "8", "8", "5", "9", "-", "1">>}
  THEN "latin-1"
  ELSE IF Lower(encoding) \in {<<"a", "s", "c", "i", "i">>} THEN "ascii"
  ELSE "unknown"

\* One decoded character in front of the decoded rest
decoded_char(ch, rest) == [ok |-> rest.ok, str |-> <<ch>> \o rest.str]

\* bytes.decode as UTF-8: a byte of the ASCII range is its character, a lead
\* byte 110xxxxx takes one continuation byte 10xxxxxx
RECURSIVE decode_utf8(_)
decode_utf8(bytes) ==
  IF bytes = <<>> THEN [ok |-> TRUE, str |-> <<>>]
  ELSE IF ~IsHighByte(bytes[1])
  THEN decoded_char(bytes[1], decode_utf8(Tail(bytes)))
  ELSE IF /\ ByteCode(bytes[1]) \in 194..223
          /\ Len(bytes) >= 2 /\ IsHighByte(bytes[2]) /\ ByteCode(bytes[2]) \in 128..191
  THEN decoded_char(CharOfCode((ByteCode(bytes[1]) - 192) * 64 + ByteCode(bytes[2]) - 128),
                    decode_utf8(SubSeq(bytes, 3, Len(bytes))))
  ELSE [ok |-> FALSE, str |-> <<>>]

\* bytes.decode as latin-1: every byte is the character of its code
decode_latin1(bytes) ==
  [k \in 1..Len(bytes) |->
     IF IsHighByte(bytes[k]) THEN CharOfCode(ByteCode(bytes[k])) ELSE bytes[k]]

\* bytes.decode as UTF-8, u the outcome of the decoder
decode_utf8_outcome(u) ==
  IF u.ok THEN [str |-> u.str, err |-> NoErr]
  ELSE [str |-> <<>>, err |-> Raise("UnicodeDecodeError")]

\* bytes.decode(encoding): empty bytes decode to '' whatever the encoding is
\* named (CPython does not look the codec up for them)
decode(bytes, encoding) ==
  IF bytes = <<>> THEN [str |-> <<>>, err |-> NoErr]
  ELSE IF codec(encoding) = "unknown" THEN [str |-> <<>>, err |-> Raise("LookupError")]
  ELSE IF codec(encoding) = "latin-1" THEN [str |-> decode_latin1(bytes), err |-> NoErr]
  ELSE IF codec(encoding) = "ascii"
  THEN IF \E k \in 1..Len(bytes) : IsHighByte(bytes[k])
       THEN [str |-> <<>>, err |-> Raise("UnicodeDecodeError")]
       ELSE [str |-> bytes, err |-> NoErr]
  ELSE decode_utf8_outcome(decode_utf8(bytes))

\* The UTF-8 bytes of one character
encode_utf8_char(ch) ==
  IF IsHighChar(ch)
  THEN <<ByteOfCode(192 + (CharCode(ch) \div 64)), ByteOfCode(128 + (CharCode(ch) % 64))>>
  ELSE <<ch>>

RECURSIVE encode_utf8(_)
encode_utf8(str) ==
  IF str = <<>> THEN <<>> ELSE encode_utf8_char(Head(str)) \o encode_utf8(Tail(str))

\* bytes(str, encoding) for the two encodings output is written in
encode(str, encoding) ==
  IF codec(encoding) = "utf-8" THEN [bytes |-> encode_utf8(str), err |-> NoErr]
  ELSE IF \E k \in 1..Len(str) : IsHighChar(str[k])
  THEN [bytes |-> <<>>, err |-> Raise("UnicodeEncodeError")]
  ELSE [bytes |-> str, err |-> NoErr]

\* The sequences of n elements of S
RECURSIVE SeqsOf(_, _)
SeqsOf(S, n) ==
  IF n = 0 THEN {<<>>}
  ELSE {Append(q, x) : q \in SeqsOf(S, n - 1), x \in S}

\* A property identifier is a string of the model; the letters it is
\* written with in SGF data:
RECURSIVE JoinLetters(_)
JoinLetters(letters) ==
  IF letters = <<>> THEN "" ELSE Head(letters) \o JoinLetters(Tail(letters))

\* The letters identifiers are written with in the data of the model
IdLetters == {"A", "B", "C", "G", "L", "M", "P", "W", "b"}

\* bytes(name, NAME_ENCODING)
name_bytes(name) == CHOOSE l \in SeqsOf(IdLetters, Len(name)) : JoinLetters(l) = name

(***************************************************************************)
(* Serialization                                                           *)
(***************************************************************************)
\* An escape_text that leaves ']' alone
RECURSIVE escape_backslash_only(_)
escape_backslash_only(text) ==
  IF text = <<>> THEN <<>>
  ELSE IF Head(text) = "\\" THEN <<"\\", "\\">> \o escape_backslash_only(Tail(text))
  ELSE <<Head(text)>> \o escape_backslash_only(Tail(text))

\* Node.escape_text: a backslash in front of every backslash and every ']'
RECURSIVE escape_text(_)
escape_text(text) ==
  IF text = <<>> THEN <<>>
  ELSE IF Head(text) \in {"\\", "]"} THEN <<"\\", Head(text)>> \o escape_text(Tail(text))
  ELSE <<Head(text)>> \o escape_text(Tail(text))

\* Two runs of output one after the other; what the first raised, or else
\* the second
joined(a, b) ==
  [bytes |-> a.bytes \o b.bytes, err |-> IF a.err.kind # "none" THEN a.err ELSE b.err]

Bytes(b) == [bytes |-> b, err |-> NoErr]

\* Node.__bytes__, lines 567-569: b']['.join of the encoded items from k on
RECURSIVE join_items(_, _, _)
join_items(value, k, encoding) ==
  IF k > Len(value) THEN Bytes(<<>>)
  ELSE joined(Bytes(IF k > 1 THEN <<"]", "[">> ELSE <<>>),
              joined(encode(escape_text(value[k]), encoding),
                     join_items(value, k + 1, encoding)))

\* Node.__bytes__, lines 561-572: one property
property_bytes(name, value, encoding) ==
  joined(Bytes(name_bytes(name) \o <<"[">>),
         joined(IF name \in list_properties
                THEN join_items(value, 1, encoding)
                ELSE encode(escape_text(value), encoding),
                Bytes(<<"]">>)))

\* Node.__bytes__, the loop over the items from k on
RECURSIVE node_bytes_from(_, _)
node_bytes_from(self, k) ==
  IF k > Len(self) THEN Bytes(<<>>)
  ELSE joined(property_bytes(self[k].id, self[k].val,
                             IF self[k].id \in text_properties
                             THEN TEXT_ENCODING ELSE NAME_ENCODING),
              node_bytes_from(self, k + 1))

\* Node.__bytes__
node_bytes(self) == joined(Bytes(<<";">>), node_bytes_from(self, 1))

RECURSIVE game_tree_bytes(_)
RECURSIVE parts_bytes(_, _)
\* GameTree.__bytes__, lines 350-352: the nodes and then the branches from
\* part k on, the line feed of the join before each
parts_bytes(self, k) ==
  IF k > Len(self.nodes) + Len(self.branches) THEN Bytes(<<>>)
  ELSE joined(Bytes(<<"\n">>),
              joined(IF k <= Len(self.nodes)
                     THEN node_bytes(self.nodes[k])
                     ELSE game_tree_bytes(self.branches[k - Len(self.nodes)]),
                     parts_bytes(self, k + 1)))

\* GameTree.__bytes__: b'\n'.join of '(', the nodes, the branches, ')'
game_tree_bytes(self) ==
  joined(Bytes(<<"(">>), joined(parts_bytes(self, 1), Bytes(<<"\n", ")">>)))

\* Collection.__bytes__: b'\n\n'.join of the games from k on
RECURSIVE collection_bytes_from(_, _)
collection_bytes_from(self, k) ==
  IF k > Len(self) THEN Bytes(<<>>)
  ELSE joined(Bytes(IF k > 1 THEN <<"\n", "\n">> ELSE <<>>),
              joined(game_tree_bytes(self[k]), collection_bytes_from(self, k + 1)))

collection_bytes(self) == collection_bytes_from(self, 1)

(***************************************************************************)
(* Parser.  data is the sequence of the bytes; an index counts the bytes    *)
(* before a position, as in Python.  A pattern matched at an index gives    *)
(* the end of the match, or -1 for no match.                                *)
(***************************************************************************)
\* The bytes the pattern \s matches
ByteWhitespace == {" ", "\t", "\n", "\r", "\f"}

Letters == Range(UpperLetters) \cup Range(LowerLetters)

\* The end of the longest run of bytes of S that starts at index
RECURSIVE SkipWhile(_, _, _)
SkipWhile(data, index, S) ==
  IF index < Len(data) /\ data[index + 1] \in S THEN SkipWhile(data, index + 1, S)
  ELSE index

\* data[a:b]
Slice(data, a, b) == SubSeq(data, a + 1, b)

\* One byte of chars at j
match_byte(data, j, chars) == IF j < Len(data) /\ data[j + 1] \in chars THEN j + 1 ELSE -1

\* The pattern \s* and then one byte of chars
match_after_space(data, index, chars) ==
  match_byte(data, SkipWhile(data, index, ByteWhitespace), chars)

\* patterns.game_tree_start, \s*\(
game_tree_start(data, index) == match_after_space(data, index, {"("})

\* patterns.game_tree_end, \s*\)
game_tree_end(data, index) == match_after_space(data, index, {")"})

\* patterns.game_tree_next, \s*(;|\(|\)); the group is the byte before the end
game_tree_next(data, index) == match_after_space(data, index, {";", "(", ")"})

\* patterns.property_start, \s*\[
property_start(data, index) == match_after_space(data, index, {"["})

\* patterns.node_contents, \s*([A-Za-z]+(?=\s*\[)): start and end of the
\* group; the letters run from start to their last, and \s*\[ follows
node_contents_letters(data, start, end) ==
  IF end > start /\ property_start(data, end) # -1
  THEN [start |-> start, end |-> end]
  ELSE [start |-> -1, end |-> -1]

node_contents_from(data, start) ==
  node_contents_letters(data, start, SkipWhile(data, start, Letters))

node_contents(data, index) ==
  node_contents_from(data, SkipWhile(data, index, ByteWhitespace))

\* pattern.search(data, index) for the pattern of one byte: the start of the
\* first match
RECURSIVE search(_, _, _)
search(data, index, byte) ==
  IF index >= Len(data) THEN -1
  ELSE IF data[index + 1] = byte THEN index
  ELSE search(data, index + 1, byte)

\* patterns.line_break, \r\n?|\n\r?
line_break(data, index) ==
  IF index >= Len(data) THEN -1
  ELSE IF data[index + 1] = "\r"
  THEN IF index + 1 < Len(data) /\ data[index + 2] = "\n" THEN index + 2 ELSE index + 1
  ELSE IF data[index + 1] = "\n"
  THEN IF index + 1 < Len(data) /\ data[index + 2] = "\r" THEN index + 2 ELSE index + 1
  ELSE -1

RECURSIVE parse_value(_, _, _)

\* Parser.parse_property_value, lines 1245-1257: an escape at mesc; mbreak is
\* the line break matched behind it
parse_escape(data, index, value_parts, mesc, mbreak) ==
  IF mbreak # -1
  THEN parse_value(data, mbreak, value_parts \o Slice(data, index, mesc))
  ELSE parse_value(data, mesc + 2,
                   value_parts \o Slice(data, index, mesc) \o Slice(data, mesc + 1, mesc + 2))

\* Parser.parse_property_value, lines 1242-1266: mend and mesc are the starts
\* of the first ']' and of the first backslash from index on
parse_value_found(data, index, value_parts, mesc, mend) ==
  IF mesc # -1 /\ mend # -1 /\ mesc < mend
  THEN parse_escape(data, index, value_parts, mesc, line_break(data, mesc + 1))
  ELSE IF mend # -1
  THEN [ok |-> TRUE, value |-> value_parts \o Slice(data, index, mend), index |-> mend + 1]
  ELSE [ok |-> FALSE, value |-> <<>>, index |-> index]

\* Parser.parse_property_value, lines 1236-1266: one value, read from behind
\* its '['
parse_value(data, index, value_parts) ==
  parse_value_found(data, index, value_parts, search(data, index, "\\"),
                    search(data, index, "]"))

RECURSIVE parse_property_value_from(_, _, _)

\* Parser.parse_property_value, lines 1268-1271
parse_property_value_end(index, pvlist) ==
  IF Len(pvlist) >= 1 THEN [pvlist |-> pvlist, index |-> index, err |-> NoErr]
  ELSE [pvlist |-> <<>>, index |-> index, err |-> Raise("PropertyValueParseError")]

\* Parser.parse_property_value, lines 1259-1266: v is the value read
parse_property_value_item(data, pvlist, v) ==
  IF v.ok THEN parse_property_value_from(data, v.index, Append(pvlist, v.value))
  ELSE [pvlist |-> <<>>, index |-> v.index, err |-> Raise("PropertyValueParseError")]

\* Parser.parse_property_value, lines 1232-1267: the loop, m the match of
\* property_start
parse_property_value_start(data, index, pvlist, m) ==
  IF m # -1 THEN parse_property_value_item(data, pvlist, parse_value(data, m, <<>>))
  ELSE parse_property_value_end(index, pvlist)

parse_property_value_from(data, index, pvlist) ==
  IF index < Len(data)
  THEN parse_property_value_start(data, index, pvlist, property_start(data, index))
  ELSE parse_property_value_end(index, pvlist)

\* Parser.parse_property_value
parse_property_value(data, index) == parse_property_value_from(data, index, <<>>)

\* Parser.parse_node, line 1196: [item.decode(encoding) for item in pvlist]
RECURSIVE decode_items(_, _, _)
decode_items_from(d, rest) ==
  IF d.err.kind # "none" THEN [pvlist |-> <<>>, err |-> d.err]
  ELSE [pvlist |-> <<d.str>> \o rest.pvlist, err |-> rest.err]

decode_items(pvlist, k, encoding) ==
  IF k > Len(pvlist) THEN [pvlist |-> <<>>, err |-> NoErr]
  ELSE decode_items_from(decode(pvlist[k], encoding), decode_items(pvlist, k + 1, encoding))

\* Parser.parse_node, lines 1205-1215: the value stored in the node
store_value(node, property_id, value) ==
  IF Has(node, property_id)
  THEN IF property_id \in list_properties
       THEN Put(node, property_id, Get(node, property_id) \o value)
       ELSE Put(node, property_id, Get(node, property_id) \o <<"\n", "\n">> \o value)
  ELSE Put(node, property_id, value)

RECURSIVE parse_node_from(_, _, _, _)

\* A parse_node that stores the charset property and goes on decoding with
\* the encoding it had
parse_node_value_keep(data, index, encoding, node, property_id, pvlist) ==
  IF property_id \notin list_properties /\ Len(pvlist) # 1
  THEN [val |-> node, index |-> index, encoding |-> encoding,
        err |-> Raise("NodePropertyParseError")]
  ELSE IF property_id = "CA"
  THEN parse_node_from(data, index, encoding,
                       Put(store_value(node, property_id, pvlist[1]), "CA", TEXT_ENCODING))
  ELSE parse_node_from(data, index, encoding,
                       store_value(node, property_id,
                                   IF property_id \in list_properties
                                   THEN pvlist ELSE pvlist[1]))

\* Parser.parse_node, lines 1197-1219: the decoded values of a property
parse_node_value(data, index, encoding, node, property_id, pvlist) ==
  IF property_id \notin list_properties /\ Len(pvlist) # 1
  THEN [val |-> node, index |-> index, encoding |-> encoding,
        err |-> Raise("NodePropertyParseError")]
  ELSE IF property_id = "CA"
  THEN parse_node_from(data, index, pvlist[1],
                       Put(store_value(node, property_id, pvlist[1]), "CA", TEXT_ENCODING))
  ELSE parse_node_from(data, index, encoding,
                       store_value(node, property_id,
                                   IF property_id \in list_properties
                                   THEN pvlist ELSE pvlist[1]))

\* Parser.parse_node, line 1196: d is the outcome of the decoding
parse_node_decoded(data, index, encoding, node, property_id, d) ==
  IF d.err.kind # "none"
  THEN [val |-> node, index |-> index, encoding |-> encoding, err |-> d.err]
  ELSE parse_node_value(data, index, encoding, node, property_id, d.pvlist)

\* Parser.parse_node, lines 1191-1196: pv is the outcome of
\* parse_property_value
parse_node_property(data, encoding, node, property_id, pv) ==
  IF pv.err.kind # "none"
  THEN [val |-> node, index |-> pv.index, encoding |-> encoding, err |-> pv.err]
  ELSE parse_node_decoded(data, pv.index, encoding, node, property_id,
                          decode_items(pv.pvlist, 1,
                                       IF property_id \in text_properties
                                       THEN encoding ELSE NAME_ENCODING))

\* Parser.parse_node, lines 1185-1191: match is that of node_contents
parse_node_contents(data, index, encoding, node, match) ==
  IF match.end = -1
  THEN [val |-> node, index |-> index, encoding |-> encoding, err |-> NoErr]
  ELSE parse_node_property(data, encoding, node,
                           JoinLetters(Slice(data, match.start, match.end)),
                           parse_property_value(data, match.end))

\* Parser.parse_node, the loop, node being the properties read so far
parse_node_from(data, index, encoding, node) ==
  IF index < Len(data)
  THEN parse_node_contents(data, index, encoding, node, node_contents(data, index))
  ELSE [val |-> node, index |-> index, encoding |-> encoding,
        err |-> Raise("EndOfDataParseError")]

\* Parser.parse_node
parse_node(data, index, encoding) == parse_node_from(data, index, encoding, <<>>)

\* The messages of the two TreeParseErrors
RaiseTree(message) ==
  [kind |-> "TreeParseError", pid |-> "", self_value |-> <<message>>, other_value |-> <<>>]

NodeAfterBranch == RaiseTree("A node was encountered after a branch.")

PastEnd == RaiseTree("Past end of SGF.")

RECURSIVE parse_game_tree_from(_, _, _, _)
RECURSIVE parse_branches_from(_, _, _, _)

\* Parser.parse_game_tree, line 1126: r is the outcome of parse_node
parse_game_tree_node(data, g, r) ==
  IF r.err.kind # "none" THEN [r EXCEPT !.val = g]
  ELSE parse_game_tree_from(data, r.index, r.encoding, [g EXCEPT !.nodes = Append(@, r.val)])

\* Parser.parse_game_tree, line 1129: r is the outcome of parse_branches
parse_game_tree_branches(data, g, r) ==
  IF r.err.kind # "none" THEN [r EXCEPT !.val = g]
  ELSE parse_game_tree_from(data, r.index, r.encoding, [g EXCEPT !.branches = r.val])

\* Parser.parse_game_tree, lines 1119-1134: m is the end of the match of
\* game_tree_next
parse_game_tree_next(data, index, encoding, g, m) ==
  IF m = -1
  THEN [val |-> g, index |-> index, encoding |-> encoding, err |-> PastEnd]
  ELSE IF data[m] = ";"
  THEN IF g.branches # <<>>
       THEN [val |-> g, index |-> m, encoding |-> encoding, err |-> NodeAfterBranch]
       ELSE parse_game_tree_node(data, g, parse_node(data, m, encoding))
  ELSE IF data[m] = "("
  THEN parse_game_tree_branches(data, g, parse_branches_from(data, m, encoding, <<>>))
  ELSE [val |-> g, index |-> m, encoding |-> encoding, err |-> NoErr]

\* Parser.parse_game_tree, the loop, g being the tree read so far; data that
\* ends leaves the loop, and g is returned
parse_game_tree_from(data, index, encoding, g) ==
  IF index < Len(data)
  THEN parse_game_tree_next(data, index, encoding, g, game_tree_next(data, index))
  ELSE [val |-> g, index |-> index, encoding |-> encoding, err |-> NoErr]

\* Parser.parse_game_tree
parse_game_tree(data, index, encoding) ==
  parse_game_tree_from(data, index, encoding, [nodes |-> <<>>, branches |-> <<>>])

\* Parser.parse_branches, lines 1156-1160: m is the match of game_tree_start
\* behind the branch
parse_branches_start(data, index, encoding, v, m) ==
  parse_branches_from(data, IF m # -1 THEN m ELSE index, encoding, v)

\* Parser.parse_branches, lines 1153-1160: r is the outcome of
\* parse_game_tree; a tree without a trunk is false and is not appended
parse_branches_tree(data, v, r) ==
  IF r.err.kind # "none" THEN [r EXCEPT !.val = v]
  ELSE parse_branches_start(data, r.index, r.encoding,
                            IF r.val.nodes # <<>> THEN Append(v, r.val) ELSE v,
                            game_tree_start(data, r.index))

\* Parser.parse_branches, the loop, v being the branches read so far
parse_branches_from(data, index, encoding, v) ==
  IF index < Len(data)
  THEN IF game_tree_end(data, index) # -1
       THEN [val |-> v, index |-> index, encoding |-> encoding, err |-> NoErr]
       ELSE parse_branches_tree(data, v, parse_game_tree(data, index, encoding))
  ELSE [val |-> v, index |-> index, encoding |-> encoding,
        err |-> Raise("EndOfDataParseError")]

\* Parser.parse_branches
parse_branches(data, index, encoding) == parse_branches_from(data, index, encoding, <<>>)

\* Parser.parse_one_game: none tells that None is returned
parse_one_game_start(data, index, encoding, m) ==
  IF m # -1
  THEN [none |-> FALSE, game |-> parse_game_tree(data, m, encoding)]
  ELSE [none |-> TRUE,
        game |-> [val |-> [nodes |-> <<>>, branches |-> <<>>], index |-> index,
                  encoding |-> encoding, err |-> NoErr]]

parse_one_game(data, index, encoding) ==
  parse_one_game_start(data, index, encoding, game_tree_start(data, index))

RECURSIVE parse_from(_, _, _, _)

\* Parser.parse, lines 1090-1093: r is the outcome of parse_one_game; None
\* and a game without a trunk are false and end the loop
parse_game(data, collection, r) ==
  IF r.game.err.kind # "none"
  THEN [collection |-> <<>>, encoding |-> r.game.encoding, err |-> r.game.err]
  ELSE IF ~r.none /\ r.game.val.nodes # <<>>
  THEN parse_from(data, r.game.index, r.game.encoding, Append(collection, r.game.val))
  ELSE [collection |-> collection, encoding |-> r.game.encoding, err |-> NoErr]

\* Parser.parse, the loop, collection being the games read so far
parse_from(data, index, encoding, collection) ==
  IF index < Len(data)
  THEN parse_game(data, collection, parse_one_game(data, index, encoding))
  ELSE [collection |-> collection, encoding |-> encoding, err |-> NoErr]

\* Parser(data).parse(): the Collection returned (none if it raises), the
\* encoding the parser is left with, and what was raised
parse(data) == parse_from(data, 0, default_encoding, <<>>)

(***************************************************************************)
(* The parser followed loop by loop.  Each method of the Parser is one     *)
(* loop over self.index, and parse_property_value has a second loop inside *)
(* the first, over the escapes of a value.  loops holds the loops entered  *)
(* and not left, the innermost last; a step runs the innermost loop from   *)
(* its condition to the call of another method, to the next test of its    *)
(* condition, to its return or to what it raises.  A loop is recorded with *)
(* fn, its method; val, the local it builds; id, the property_id whose     *)
(* values parse_node waits for; at, the index at which the iteration it is *)
(* in began (-1 before the first).                                         *)
(***************************************************************************)
Loop(fn, val) == [fn |-> fn, val |-> val, id |-> "", at |-> -1]

\* The loops with the innermost taken off, and with one more entered
Outer(stack) == SubSeq(stack, 1, Len(stack) - 1)

Enter(stack, index, loop) ==
  Append(Outer(stack), [stack[Len(stack)] EXCEPT !.at = index]) \o <<loop>>

\* The innermost loop goes on, its local being val
Again(stack, index, val) ==
  Append(Outer(stack), [stack[Len(stack)] EXCEPT !.at = index, !.val = val])

\* The outcomes of a step: the parser goes on, it raised, parse returned
Scanning(stack, index, encoding) ==
  [loops |-> stack, index |-> index, encoding |-> encoding, err |-> NoErr,
   collection |-> <<>>]

Raised(index, encoding, e) ==
  [loops |-> <<>>, index |-> index, encoding |-> encoding, err |-> e, collection |-> <<>>]

Finished(collection, index, encoding) ==
  [loops |-> <<>>, index |-> index, encoding |-> encoding, err |-> NoErr,
   collection |-> collection]

\* Parser.parse, lines 1090-1093: game is what parse_one_game returned
return_to_parse(stack, game, index, encoding) ==
  IF game.nodes # <<>>
  THEN Scanning(Append(Outer(stack), [stack[Len(stack)] EXCEPT !.val = Append(@, game)]),
                index, encoding)
  ELSE Finished(stack[Len(stack)].val, index, encoding)

\* Parser.parse_game_tree, lines 1126 and 1129: the node or the branches
\* read are put in g
return_to_game_tree(stack, fn, value, index, encoding) ==
  Scanning(Append(Outer(stack),
                  IF fn = "parse_node"
                  THEN [stack[Len(stack)] EXCEPT !.val.nodes = Append(@, value)]
                  ELSE [stack[Len(stack)] EXCEPT !.val.branches = value]),
           index, encoding)

\* Parser.parse_branches, lines 1154-1160: g is the tree read, m the match
\* of game_tree_start behind it
return_to_branches(stack, g, index, encoding, m) ==
  Scanning(Append(Outer(stack),
                  [stack[Len(stack)] EXCEPT
                     !.val = IF g.nodes # <<>> THEN Append(@, g) ELSE @]),
           IF m # -1 THEN m ELSE index, encoding)

\* Parser.parse_node, lines 1197-1219: pvlist is decoded
node_with_values(stack, property_id, pvlist, index, encoding) ==
  IF property_id \notin list_properties /\ Len(pvlist) # 1
  THEN Raised(index, encoding, Raise("NodePropertyParseError"))
  ELSE IF property_id = "CA"
  THEN Scanning(Append(Outer(stack),
                       [stack[Len(stack)] EXCEPT
                          !.val = Put(store_value(@, property_id, pvlist[1]),
                                      "CA", TEXT_ENCODING)]),
                index, pvlist[1])
  ELSE Scanning(Append(Outer(stack),
                       [stack[Len(stack)] EXCEPT
                          !.val = store_value(@, property_id,
                                              IF property_id \in list_properties
                                              THEN pvlist ELSE pvlist[1])]),
                index, encoding)

\* Parser.parse_node, lines 1191-1196: d is the outcome of the decoding
return_to_node(stack, d, index, encoding) ==
  IF d.err.kind # "none" THEN Raised(index, encoding, d.err)
  ELSE node_with_values(stack, stack[Len(stack)].id, d.pvlist, index, encoding)

\* Parser.parse_property_value, lines 1259-1262: a value is appended
return_to_property_value(stack, value, index, encoding) ==
  Scanning(Append(Outer(stack), [stack[Len(stack)] EXCEPT !.val = Append(@, value)]),
           index, encoding)

\* The loop fn is left with value: the loop around it goes on from its call
Return(data, stack, fn, value, index, encoding) ==
  IF stack[Len(stack)].fn = "parse"
  THEN return_to_parse(stack, value, index, encoding)
  ELSE IF stack[Len(stack)].fn = "parse_game_tree"
  THEN return_to_game_tree(stack, fn, value, index, encoding)
  ELSE IF stack[Len(stack)].fn = "parse_branches"
  THEN return_to_branches(stack, value, index, encoding, game_tree_start(data, index))
  ELSE IF stack[Len(stack)].fn = "parse_node"
  THEN return_to_node(stack,
                      decode_items(value, 1,
                                   IF stack[Len(stack)].id \in text_properties
                                   THEN encoding ELSE NAME_ENCODING),
                      index, encoding)
  ELSE return_to_property_value(stack, value, index, encoding)

\* GameTree(): no nodes, no branches
EmptyTree == [nodes |-> <<>>, branches |-> <<>>]

\* Parser.parse, lines 1088-1094, with parse_one_game, lines 1101-1106: m is
\* the match of game_tree_start
parse_step(data, stack, index, encoding, m) ==
  IF index < Len(data) /\ m # -1
  THEN Scanning(Enter(stack, index, Loop("parse_game_tree", EmptyTree)), m, encoding)
  ELSE Finished(stack[Len(stack)].val, index, encoding)

\* Parser.parse_game_tree, lines 1117-1136: m is the match of game_tree_next
parse_game_tree_step(data, stack, index, encoding, g, m) ==
  IF index >= Len(data)
  THEN Return(data, Outer(stack), "parse_game_tree", g, index, encoding)
  ELSE IF m = -1 THEN Raised(index, encoding, PastEnd)
  ELSE IF data[m] = ";"
  THEN IF g.branches # <<>> THEN Raised(m, encoding, NodeAfterBranch)
       ELSE Scanning(Enter(stack, index, Loop("parse_node", <<>>)), m, encoding)
  ELSE IF data[m] = "("
  THEN Scanning(Enter(stack, index, Loop("parse_branches", <<>>)), m, encoding)
  ELSE Return(data, Outer(stack), "parse_game_tree", g, m, encoding)

\* Parser.parse_branches, lines 1148-1154 and 1161
parse_branches_step(data, stack, index, encoding, v) ==
  IF index >= Len(data) THEN Raised(index, encoding, Raise("EndOfDataParseError"))
  ELSE IF game_tree_end(data, index) # -1
  THEN Return(data, Outer(stack), "parse_branches", v, index, encoding)
  ELSE Scanning(Enter(stack, index, Loop("parse_game_tree", EmptyTree)), index, encoding)

\* Parser.parse_node, lines 1184-1191 and 1220: match is that of
\* node_contents
parse_node_step(data, stack, index, encoding, node, match) ==
  IF index >= Len(data) THEN Raised(index, encoding, Raise("EndOfDataParseError"))
  ELSE IF match.end = -1
  THEN Return(data, Outer(stack), "parse_node", node, index, encoding)
  ELSE Scanning(Enter([stack EXCEPT
                         ![Len(stack)].id = JoinLetters(Slice(data, match.start, match.end))],
                      index, Loop("parse_property_value", <<>>)),
                match.end, encoding)

\* Parser.parse_property_value, lines 1231-1236 and 1265-1271: m is the
\* match of property_start
parse_property_value_step(data, stack, index, encoding, pvlist, m) ==
  IF index < Len(data) /\ m # -1
  THEN Scanning(Enter(stack, index, Loop("escapes", <<>>)), m, encoding)
  ELSE IF Len(pvlist) >= 1
  THEN Return(data, Outer(stack), "parse_property_value", pvlist, index, encoding)
  ELSE Raised(index, encoding, Raise("PropertyValueParseError"))

\* An escape that takes one byte more behind its backslash
escaped_index_far(mesc, mbreak) == IF mbreak # -1 THEN mbreak ELSE mesc + 3

\* Parser.parse_property_value, lines 1245-1257: the index behind the
\* escape at mesc, mbreak being the line break matched behind it
escaped_index(mesc, mbreak) == IF mbreak # -1 THEN mbreak ELSE mesc + 2

\* Parser.parse_property_value, lines 1243-1247 and 1254: what the escape
\* at mesc adds to value_parts
escaped_parts(data, index, value_parts, mesc, mbreak) ==
  IF mbreak # -1 THEN value_parts \o Slice(data, index, mesc)
  ELSE value_parts \o Slice(data, index, mesc) \o Slice(data, mesc + 1, mesc + 2)

\* Parser.parse_property_value, lines 1239-1264, the loop over the escapes
\* of a value: mend and mesc are the starts of the first ']' and of the
\* first backslash from index on
escapes_step(data, stack, index, encoding, value_parts, mesc, mend) ==
  IF mesc # -1 /\ mend # -1 /\ mesc < mend
  THEN Scanning(Again(stack, index,
                      escaped_parts(data, index, value_parts, mesc,
                                    line_break(data, mesc + 1))),
                escaped_index(mesc, line_break(data, mesc + 1)), encoding)
  ELSE IF mend # -1
  THEN Return(data, Outer(stack), "escapes", value_parts \o Slice(data, index, mend),
              mend + 1, encoding)
  ELSE Raised(index, encoding, Raise("PropertyValueParseError"))

(***************************************************************************)
(* Inputs                                                                  *)
(***************************************************************************)
\* The most nodes the two trees of a run have together, the longest trunk
\* of a pair of branchless trees, and the most branches a tree is given.
MaxNodes == 3

MaxTrunk == 2

MaxBranches == 2

Item(pid, v) == [id |-> pid, val |-> v]

\* The nodes the input trees are built from: two root nodes whose player
\* names differ in case only, a root node whose player name is empty, two
\* moves, a move with a comment, and a node without a type (its comment is
\* empty) that holds a move.
TreeNodes ==
  { <<Item("PB", <<"A", "b">>)>>,
    <<Item("PB", <<"a", "b">>)>>,
    <<Item("PB", <<>>)>>,
    <<Item("B", <<"a", "a">>)>>,
    <<Item("B", <<"b", "b">>)>>,
    <<Item("W", <<"a", "a">>), Item("C", <<"x">>)>>,
    <<Item("C", <<>>), Item("W", <<"b", "b">>)>> }

RECURSIVE CountNodes(_)
RECURSIVE CountForest(_)
CountNodes(t) == Len(t.nodes) + CountForest(t.branches)

CountForest(f) == IF f = <<>> THEN 0 ELSE CountNodes(Head(f)) + CountForest(Tail(f))

\* BranchTrees(N, n): the trees of at most n nodes over the node set N whose
\* trunk is not empty, as the parser and the merge build every branch;
\* Forests(N, n, b): the sequences of at most b such trees, n nodes in all.
RECURSIVE BranchTrees(_, _)
RECURSIVE Forests(_, _, _)
BranchTrees(N, n) ==
  UNION { { [nodes |-> t, branches |-> f] :
              t \in SeqsOf(N, l), f \in Forests(N, n - l, MaxBranches) }
          : l \in 1..n }

Forests(N, n, b) ==
  IF b = 0 \/ n = 0 THEN {<<>>}
  ELSE {<<>>} \cup
       UNION { { <<t>> \o f : f \in Forests(N, n - CountNodes(t), b - 1) }
               : t \in BranchTrees(N, n) }

\* Every tree of at most n nodes: a root may have an empty trunk
Trees(N, n) ==
  BranchTrees(N, n) \cup
    { [nodes |-> <<>>, branches |-> f] : f \in Forests(N, n, MaxBranches) }

\* The trees without branches whose trunk has at most n nodes
Trunks(N, n) == UNION { { [nodes |-> t, branches |-> <<>>] : t \in SeqsOf(N, l) } : l \in 0..n }

(***************************************************************************)
(* The program: a target Collection, a source Collection, and the calls a  *)
(* client (MergerCLI.execute, the tests) makes on them.                    *)
(***************************************************************************)
VARIABLES
  target,     \* the Collection merged into (`result` in MergerCLI.execute)
  source,     \* the Collection merged from (`game`)
  hashorder,  \* the iteration order of sets of str in this interpreter run
  argsets,    \* the arguments the client of this run calls merge with
  op,         \* the last call made
  args,       \* its arguments
  err,        \* what it raised
  target0,    \* target before that call
  source0,    \* source before that call
  data,       \* the SGF data a Parser is given
  encoding,   \* Parser.encoding of the parser that parsed last
  output,     \* the bytes written: bytes(collection), a value in its brackets
  text,       \* a property value (a str) to be written
  pvlist,     \* the list of values parse_property_value returned
  index,      \* Parser.index of a parser followed loop by loop
  loops,      \* the loops that parser is in, the innermost last
  objects     \* the objects of target and of the sources merged into it

vars ==
  <<target, source, hashorder, argsets, op, args, err, target0, source0,
    data, encoding, output, text, pvlist, index, loops, objects>>

NoArgs == [comment |-> NoneVal, comments_everywhere |-> TRUE, ignore_property_values |-> {}]

\* No parser has run and nothing has been written
Unparsed ==
  /\ data = <<>>
  /\ encoding = default_encoding
  /\ output = <<>>
  /\ text = <<>>
  /\ pvlist = <<>>
  /\ index = 0
  /\ loops = <<>>
  /\ objects = NoObjects

InitWith(H, A) ==
  /\ Unparsed
  /\ hashorder \in H
  /\ argsets = A
  /\ op = "init"
  /\ args = NoArgs
  /\ err = NoErr
  /\ target0 = target
  /\ source0 = source

\* The call is recorded (a run makes one call, from the initial state)
Called(name, a) ==
  /\ op' = name
  /\ args' = a
  /\ target0' = target
  /\ source0' = source
  /\ UNCHANGED <<hashorder, argsets, data, encoding, output, text, pvlist, index, loops,
                 objects>>

\* target.merge(source, comment, comments_everywhere, ignore_property_values)
CollectionMerge ==
  /\ op = "init"
  /\ \E a \in argsets :
      \E r \in {collection_merge(target, source, a.comment, a.comments_everywhere,
                                 a.ignore_property_values, hashorder)} :
        /\ Called("Collection.merge", a)
        /\ target' = r.self
        /\ source' = r.arg
        /\ err' = r.err

\* target.merge(target, ...), as test_merge_self does
CollectionMergeSelf ==
  /\ op = "init"
  /\ \E a \in argsets :
      \E r \in {collection_merge(target, target, a.comment, a.comments_everywhere,
                                 a.ignore_property_values, hashorder)} :
        /\ Called("Collection.merge(self)", a)
        /\ target' = r.self
        /\ err' = r.err
        /\ UNCHANGED source

\* target[0].merge(source[0], ...)
GameTreeMerge ==
  /\ op = "init"
  /\ Len(target) >= 1 /\ Len(source) >= 1
  /\ \E a \in argsets :
      \E r \in {game_tree_merge(target[1], source[1], a.comment, a.comments_everywhere,
                                a.ignore_property_values, hashorder)} :
        /\ Called("GameTree.merge", a)
        /\ target' = [target EXCEPT ![1] = r.self]
        /\ source' = [source EXCEPT ![1] = r.arg]
        /\ err' = r.err

\* target.normalize()
NormalizeTarget ==
  /\ op = "init"
  /\ Called("Collection.normalize", NoArgs)
  /\ target' = collection_normalize(target)
  /\ err' = NoErr
  /\ UNCHANGED source

Next ==
  \/ CollectionMerge
  \/ CollectionMergeSelf
  \/ GameTreeMerge
  \/ NormalizeTarget

\* The arguments of a merge of trees: with and without a comment prefix,
\* on every merged comment or on new variations only, with and without an
\* ignore rule for the player name
TreeArgs ==
  [comment : {NoneVal, <<"P">>}, comments_everywhere : BOOLEAN,
   ignore_property_values : {{}, {<<"PB", any>>}}]

\* The nodes of TreeNodes that are moves, and the most nodes the branches
\* of a fork hold together
MoveNodes == { n \in TreeNodes : ~Has(n, "PB") }

MaxForkNodes == 2

\* Two trees that share their trunk of one node, with branches of their own
ForkPairs(n) ==
  { <<[nodes |-> <<(<<Item("PB", <<"A", "b">>)>>)>>, branches |-> f],
      [nodes |-> <<(<<Item("PB", <<"A", "b">>)>>)>>, branches |-> g]>> :
      f \in Forests(MoveNodes, n, MaxBranches),
      g \in Forests(MoveNodes, n, MaxBranches) }

\* A fork and a branchless tree that goes on after the trunk of the fork,
\* either for target
TailPairs(n) ==
  UNION { { <<[nodes |-> <<(<<Item("PB", <<"A", "b">>)>>)>>, branches |-> f],
              [nodes |-> <<(<<Item("PB", <<"A", "b">>)>>)>> \o m, branches |-> <<>>]>>,
            <<[nodes |-> <<(<<Item("PB", <<"A", "b">>)>>)>> \o m, branches |-> <<>>],
              [nodes |-> <<(<<Item("PB", <<"A", "b">>)>>)>>, branches |-> f]>> } :
          f \in Forests(MoveNodes, n, MaxBranches),
          m \in UNION { SeqsOf(MoveNodes, l) : l \in 1..n } }

\* The pairs <<target tree, source tree>> of a run: any two trees of n nodes
\* together, any tree of n nodes with a source of the same content, any two
\* branchless trees of m nodes each, the forks, and the forks with a longer
\* trunk, their branches of f nodes
TreePairs(n, m, f) ==
  UNION { Trees(TreeNodes, k) \X Trees(TreeNodes, n - k) : k \in 0..n }
    \cup { <<t, t>> : t \in Trees(TreeNodes, n) }
    \cup (Trunks(TreeNodes, m) \X Trunks(TreeNodes, m))
    \cup ForkPairs(f) \cup TailPairs(f)

\* A target and a source that hold one game each
Init ==
  /\ \E p \in TreePairs(MaxNodes, MaxTrunk, MaxForkNodes) :
       /\ target = <<p[1]>>
       /\ source = <<p[2]>>
  /\ InitWith({<<>>}, TreeArgs)

Spec == Init /\ [][Next]_vars

(***************************************************************************)
(* The same calls on two games of one node each: the per-property merge    *)
(***************************************************************************)
\* The entries of the label lists
Entries == {"a", "b", "c"}

\* The orders a set of entries may be iterated in, one per interpreter run
HashOrders == {q \in SeqsOf(Entries, Cardinality(Entries)) : Range(q) = Entries}

\* Root nodes (GM makes them so; the one with an empty comment has no type):
\* results, time limits written as numbers and with a unit, player names,
\* komi values, label lists, comments (none, empty, with whitespace around)
PropNodes ==
  { <<Item("GM", <<"1">>)>> } \cup
  { <<Item("GM", <<"1">>), i>> :
      i \in { Item("RE", <<"B", "R">>), Item("RE", <<"W", "3">>),
              Item("RE", <<"?">>), Item("RE", <<>>),
              Item("TM", <<"1">>), Item("TM", <<"1", ".", "0">>),
              Item("TM", <<"1", "h">>), Item("TM", <<"2", "h">>),
              Item("KM", <<"4", ".", "5">>), Item("KM", <<"4", ".", "5", "0">>),
              Item("KM", <<"4", ".", "5", "0", "0", "0", "0", "0", "0", "1">>),
              Item("KM", <<"5", ".", "5">>), Item("KM", <<"2", "0">>),
              Item("KM", <<"2", "0", ".", "0", "0", "0", "0", "0", "0", "0", "1">>),
              Item("PB", <<"A", "b">>), Item("PB", <<"a", "b">>),
              Item("LB", <<"c">>), Item("LB", <<"a">>), Item("LB", <<"a", "a">>),
              Item("LB", <<"a", "b">>), Item("LB", <<"b", "a">>),
              Item("C", <<"x">>), Item("C", <<>>),
              Item("C", <<" ", "x">>), Item("C", <<"y", "\n">>) } }

\* The arguments of a merge of nodes: the ignore rules are none, any result,
\* one result, any label list, any time limit
NodeArgs ==
  [comment : {NoneVal, <<"P">>}, comments_everywhere : BOOLEAN,
   ignore_property_values :
     {{}, {<<"RE", any>>}, {<<"RE", <<"W", "3">> >>}, {<<"LB", any>>}, {<<"TM", any>>}}]

InitNodes ==
  /\ \E t \in PropNodes, o \in PropNodes :
       /\ target = <<[nodes |-> <<t>>, branches |-> <<>>]>>
       /\ source = <<[nodes |-> <<o>>, branches |-> <<>>]>>
  /\ InitWith(HashOrders, NodeArgs)

SpecNodes == InitNodes /\ [][Next]_vars

(***************************************************************************)
(* The same calls on two games of one node each, the nodes of every kind:  *)
(* the classification of nodes and their equivalence                       *)
(***************************************************************************)
\* A node without properties, an empty comment alone and with a move, three
\* moves, a move property without a mover, both movers in one node, root
\* nodes (two player names, a game type), setup nodes (a list of stones, the
\* player to move), setup stones together with a move, and a comment alone
TypeNodes ==
  { <<>>,
    <<Item("C", <<>>)>>,
    <<Item("C", <<>>), Item("W", <<"b", "b">>)>>,
    <<Item("B", <<"a", "a">>)>>,
    <<Item("B", <<"b", "b">>)>>,
    <<Item("W", <<"a", "a">>)>>,
    <<Item("KO", <<>>)>>,
    <<Item("B", <<"a", "a">>), Item("W", <<"b", "b">>)>>,
    <<Item("PB", <<"A", "b">>)>>,
    <<Item("PB", <<"c", "d">>)>>,
    <<Item("GM", <<"1">>)>>,
    <<Item("AB", <<(<<"a", "a">>)>>)>>,
    <<Item("PL", <<"B">>)>>,
    <<Item("AB", <<(<<"a", "a">>)>>), Item("B", <<"b", "b">>)>>,
    <<Item("C", <<"x">>)>> }

InitTypes ==
  /\ \E t \in TypeNodes, o \in TypeNodes :
       /\ target = <<[nodes |-> <<t>>, branches |-> <<>>]>>
       /\ source = <<[nodes |-> <<o>>, branches |-> <<>>]>>
  /\ InitWith({<<>>}, TreeArgs)

SpecTypes == InitTypes /\ [][Next]_vars

(***************************************************************************)
(* Parsing and writing: the steps of test_sgfdata1 and of the CLIs, which  *)
(* parse data into a Collection (target), write it as bytes (output) and   *)
(* parse what was written into a second Collection (source).               *)
(***************************************************************************)
\* A call without arguments is recorded
Recorded(name) ==
  /\ op' = name
  /\ args' = NoArgs
  /\ target0' = target
  /\ source0' = source
  /\ UNCHANGED <<hashorder, argsets, index, loops, objects>>

\* collection = Parser(data).parse()
ParserParse ==
  /\ op = "init"
  /\ \E r \in {parse(data)} :
       /\ Recorded("Parser.parse")
       /\ target' = r.collection
       /\ encoding' = r.encoding
       /\ err' = r.err
       /\ UNCHANGED <<source, data, output, text, pvlist>>

\* bytes(collection), as Collection.save writes it
CollectionBytes ==
  /\ op = "Parser.parse" /\ err.kind = "none"
  /\ \E r \in {collection_bytes(target)} :
       /\ Recorded("Collection.__bytes__")
       /\ output' = r.bytes
       /\ err' = r.err
       /\ UNCHANGED <<target, source, data, encoding, text, pvlist>>

\* collection2 = Parser(bytes(collection)).parse()
ParserParseBytes ==
  /\ op = "Collection.__bytes__" /\ err.kind = "none"
  /\ \E r \in {parse(output)} :
       /\ Recorded("Parser.parse(bytes)")
       /\ source' = r.collection
       /\ encoding' = r.encoding
       /\ err' = r.err
       /\ UNCHANGED <<target, data, output, text, pvlist>>

NextParser ==
  \/ ParserParse
  \/ CollectionBytes
  \/ ParserParseBytes

\* The most nodes a document of the inputs has, and the longest of the
\* inputs made of '(', ')' and ';' alone
MaxDocNodes == 3

MaxStructure == 8

\* The UTF-8 bytes of an e with an acute accent; read as latin-1 they are
\* two characters
EAcute == <<"xC3", "xA9">>

\* The nodes documents are written with: an empty node, a move with an
\* escaped ']', a comment outside ASCII, the same in front of the charset
\* declaration of its node, and another charset declaration
RawNodes ==
  { <<";">>,
    <<";", "B", "[", "a", "\\", "]", "]">>,
    <<";", "C", "[">> \o EAcute \o <<"]">>,
    <<";", "C", "[">> \o EAcute \o <<"]", "C", "A", "[", "U", "T", "F", "-", "8", "]">>,
    <<";", "C", "A", "[", "l", "a", "t", "i", "n", "-", "1", "]">> }

\* A tree of raw nodes as SGF text: '(', the nodes, the branches, ')'
RECURSIVE Render(_)
Render(t) ==
  <<"(">> \o Concat(t.nodes)
    \o Concat([k \in 1..Len(t.branches) |-> Render(t.branches[k])]) \o <<")">>

\* The documents of one game and of two games, of at most n nodes
WellFormed(n) ==
  { Render(t) : t \in Trees(RawNodes, n) } \cup
  UNION { { Render(t) \o Render(u) : t \in BranchTrees(RawNodes, k),
                                     u \in BranchTrees(RawNodes, n - k) }
          : k \in 1..(n - 1) }

\* Every text of '(', ')' and ';' of at most n bytes
Structures(n) == UNION { SeqsOf({"(", ")", ";"}, k) : k \in 0..n }

\* d, a proper beginning of d, or d with one more ';' somewhere
IsInputFrom(d, input) ==
  \/ input = d
  \/ \E k \in 0..(Len(d) - 1) : input = SubSeq(d, 1, k)
  \/ \E k \in 0..Len(d) : input = SubSeq(d, 1, k) \o <<";">> \o SubSeq(d, k + 1, Len(d))

InitParser ==
  /\ \/ data \in Structures(MaxStructure)
     \/ \E d \in WellFormed(MaxDocNodes) : IsInputFrom(d, data)
  /\ encoding = default_encoding
  /\ output = <<>> /\ text = <<>> /\ pvlist = <<>>
  /\ index = 0 /\ loops = <<>> /\ objects = NoObjects
  /\ target = <<>> /\ source = <<>>
  /\ hashorder = <<>> /\ argsets = {}
  /\ op = "init" /\ args = NoArgs /\ err = NoErr
  /\ target0 = <<>> /\ source0 = <<>>

SpecParser == InitParser /\ [][NextParser]_vars

(***************************************************************************)
(* The parser followed loop by loop                                        *)
(***************************************************************************)
\* The step of the innermost loop
Innermost == loops[Len(loops)]

\* The parser is where r tells
Stepped(r) ==
  /\ loops' = r.loops
  /\ index' = r.index
  /\ encoding' = r.encoding
  /\ err' = r.err
  /\ target' = r.collection
  /\ op' = IF r.loops = <<>> THEN "Parser.parse" ELSE op
  /\ UNCHANGED <<source, hashorder, argsets, args, target0, source0, data, output,
                 text, pvlist, objects>>

InLoop(fn) == loops # <<>> /\ Innermost.fn = fn

ParseStep ==
  /\ InLoop("parse")
  /\ Stepped(parse_step(data, loops, index, encoding, game_tree_start(data, index)))

ParseGameTreeStep ==
  /\ InLoop("parse_game_tree")
  /\ Stepped(parse_game_tree_step(data, loops, index, encoding, Innermost.val,
                                  game_tree_next(data, index)))

ParseBranchesStep ==
  /\ InLoop("parse_branches")
  /\ Stepped(parse_branches_step(data, loops, index, encoding, Innermost.val))

ParseNodeStep ==
  /\ InLoop("parse_node")
  /\ Stepped(parse_node_step(data, loops, index, encoding, Innermost.val,
                             node_contents(data, index)))

ParsePropertyValueStep ==
  /\ InLoop("parse_property_value")
  /\ Stepped(parse_property_value_step(data, loops, index, encoding, Innermost.val,
                                       property_start(data, index)))

EscapesStep ==
  /\ InLoop("escapes")
  /\ Stepped(escapes_step(data, loops, index, encoding, Innermost.val,
                          search(data, index, "\\"), search(data, index, "]")))

NextScan ==
  \/ ParseStep
  \/ ParseGameTreeStep
  \/ ParseBranchesStep
  \/ ParseNodeStep
  \/ ParsePropertyValueStep
  \/ EscapesStep

\* The most nodes a document followed loop by loop has, and the longest of
\* its inputs made of '(', ')' and ';' alone
MaxScanNodes == 2

MaxScanStructure == 5

\* The nodes of these documents: a move with an escaped ']', a list with
\* white space and an escaped line break of two bytes, two values for a
\* scalar, a move outside ASCII
ScanNodes ==
  { <<";", "B", "[", "a", "\\", "]", "]">>,
    <<";", " ", "A", "B", "[", "a", "\\", "\r", "\n", "]", " ", "[", "b", "]">>,
    <<";", "B", "[", "a", "]", "[", "b", "]">>,
    <<";", "B", "[">> \o EAcute \o <<"]">> }

\* The documents of one game and of two games, of at most n nodes
ScanFiles(n) ==
  { Render(t) : t \in Trees(ScanNodes, n) } \cup
  UNION { { Render(t) \o Render(u) : t \in BranchTrees(ScanNodes, k),
                                     u \in BranchTrees(ScanNodes, n - k) }
          : k \in 1..(n - 1) }

\* Parser(data).parse() is called, data being a text of '(', ')' and ';', a
\* document or the beginning of one: index is 0 and the loop of parse is at
\* its condition
InitScan ==
  /\ \/ data \in Structures(MaxScanStructure)
     \/ \E d \in ScanFiles(MaxScanNodes) : \E k \in 0..Len(d) : data = SubSeq(d, 1, k)
  /\ encoding = default_encoding
  /\ output = <<>> /\ text = <<>> /\ pvlist = <<>>
  /\ index = 0 /\ loops = <<Loop("parse", <<>>)>> /\ objects = NoObjects
  /\ target = <<>> /\ source = <<>>
  /\ hashorder = <<>> /\ argsets = {}
  /\ op = "init" /\ args = NoArgs /\ err = NoErr
  /\ target0 = <<>> /\ source0 = <<>>

\* The parser runs in one thread, from the call of parse to its end: a step
\* that can be taken is taken
SpecScan == InitScan /\ [][NextScan]_vars /\ WF_vars(NextScan)

(***************************************************************************)
(* Writing one property value and reading it back                          *)
(***************************************************************************)
\* The characters of the values: a letter, the two characters that are
\* escaped, '[', the line breaks, a character outside ASCII
TextChars == {"a", "\\", "]", "[", "\n", "\r", "U+00E9"}

MaxText == 4

Texts(n) == UNION { SeqsOf(TextChars, k) : k \in 0..n }

\* Node.__bytes__, lines 564-572, for the value of a scalar text property:
\* the escaped text, encoded, in its brackets
EscapeText ==
  /\ op = "init"
  /\ Recorded("Node.escape_text")
  /\ output' = <<"[">> \o encode(escape_text(text), TEXT_ENCODING).bytes \o <<"]">>
  /\ err' = encode(escape_text(text), TEXT_ENCODING).err
  /\ UNCHANGED <<target, source, data, encoding, text, pvlist>>

\* Parser(output).parse_property_value()
ParsePropertyValue ==
  /\ op = "Node.escape_text"
  /\ \E r \in {parse_property_value(output, 0)} :
       /\ Recorded("Parser.parse_property_value")
       /\ pvlist' = r.pvlist
       /\ err' = r.err
       /\ UNCHANGED <<target, source, data, encoding, output, text>>

NextEscape ==
  \/ EscapeText
  \/ ParsePropertyValue

InitEscape ==
  /\ text \in Texts(MaxText)
  /\ data = <<>> /\ encoding = default_encoding
  /\ output = <<>> /\ pvlist = <<>>
  /\ index = 0 /\ loops = <<>> /\ objects = NoObjects
  /\ target = <<>> /\ source = <<>>
  /\ hashorder = <<>> /\ argsets = {}
  /\ op = "init" /\ args = NoArgs /\ err = NoErr
  /\ target0 = <<>> /\ source0 = <<>>

SpecEscape == InitEscape /\ [][NextEscape]_vars

(***************************************************************************)
(* Merging two games that were read from files, writing the result and     *)
(* reading it back: MergerCLI.execute, and a later Collection.load of its   *)
(* output                                                                  *)
(***************************************************************************)
\* The most nodes a game file has
MaxGameNodes == 2

\* The nodes of the game files: a root node, two moves, a move with a comment
GameNodes ==
  { <<";", "G", "M", "[", "1", "]">>,
    <<";", "B", "[", "a", "a", "]">>,
    <<";", "W", "[", "b", "b", "]">>,
    <<";", "B", "[", "a", "a", "]", "C", "[", "x", "]">> }

\* The game files: one game each, its trunk not empty
GameFiles(n) == { Render(t) : t \in BranchTrees(GameNodes, n) }

\* result.save(...): the merged Collection written as bytes
ResultSave ==
  /\ op = "Collection.merge" /\ err.kind = "none"
  /\ \E r \in {collection_bytes(target)} :
       /\ Recorded("Collection.save")
       /\ output' = r.bytes
       /\ err' = r.err
       /\ UNCHANGED <<target, source, data, encoding, text, pvlist>>

\* Collection.load(data=output): what was written, parsed again (into source)
CollectionLoad ==
  /\ op = "Collection.save" /\ err.kind = "none"
  /\ \E r \in {parse(output)} :
       /\ Recorded("Collection.load")
       /\ source' = r.collection
       /\ encoding' = r.encoding
       /\ err' = r.err
       /\ UNCHANGED <<target, data, output, text, pvlist>>

NextSave ==
  \/ CollectionMerge
  \/ ResultSave
  \/ CollectionLoad

\* Two game files loaded, and the arguments of their merge
InitSave ==
  /\ \E d \in GameFiles(MaxGameNodes), e \in GameFiles(MaxGameNodes) :
       /\ target = parse(d).collection
       /\ source = parse(e).collection
  /\ InitWith({<<>>}, {NoArgs, [NoArgs EXCEPT !.comment = <<"P">>]})

SpecSave == InitSave /\ [][NextSave]_vars

(***************************************************************************)
(* Merges and normalizations one after another, followed object by object  *)
(***************************************************************************)
\* The most merges of a run, and the most nodes its three trees have
\* together
MaxCalls == 2

MaxObjectNodes == 3

\* The nodes of these trees: a move, the same move with a label list and a
\* name, with another list and another name (the names conflict), and
\* another move
ObjectNodes ==
  { <<Item("B", <<"a", "a">>)>>,
    <<Item("LB", <<"a">>), Item("B", <<"a", "a">>), Item("N", <<"x">>)>>,
    <<Item("LB", <<"b">>), Item("B", <<"a", "a">>), Item("N", <<"y">>)>>,
    <<Item("W", <<"b", "b">>)>> }

\* A target and two sources of at most n nodes together
ObjectInputs(n) ==
  UNION { UNION { Trees(ObjectNodes, k) \X Trees(ObjectNodes, l)
                    \X Trees(ObjectNodes, n - k - l)
                  : l \in 0..(n - k) }
          : k \in 1..n }

\* The call is recorded: v is its outcome by value, r its outcome by object
ObjectsCalled(name, a, s, v, r) ==
  /\ op' = name
  /\ args' = a
  /\ target0' = target
  /\ source0' = collection_value(objects.sources[s])
  /\ target' = v.self
  /\ source' = v.arg
  /\ err' = v.err
  /\ objects' = [objects EXCEPT !.target = r.self, !.number = @ + 1, !.err = r.err]
  /\ UNCHANGED <<hashorder, argsets, data, encoding, output, text, pvlist, index, loops>>

\* target.merge(sources[s], comment, comments_everywhere,
\* ignore_property_values)
ObjectsCollectionMerge ==
  /\ objects.number < MaxCalls
  /\ \E s \in 1..Len(objects.sources), a \in argsets :
       ObjectsCalled("Collection.merge", a, s,
                     collection_merge(target, collection_value(objects.sources[s]),
                                      a.comment, a.comments_everywhere,
                                      a.ignore_property_values, hashorder),
                     collection_object_merge(objects.target, objects.sources[s],
                                             CallOf(a, hashorder, objects.number + 1)))

\* GameTree.merge, r being the outcome of target[0].merge
game_merged(self, r) == [r EXCEPT !.self = [self EXCEPT ![1] = r.self]]

\* target[0].merge(sources[s][0], ...)
ObjectsGameTreeMerge ==
  /\ objects.number < MaxCalls
  /\ \E s \in 1..Len(objects.sources), a \in argsets :
       ObjectsCalled("GameTree.merge", a, s,
                     [game_merged(target,
                                  game_tree_merge(target[1],
                                                  collection_value(objects.sources[s])[1],
                                                  a.comment, a.comments_everywhere,
                                                  a.ignore_property_values, hashorder))
                        EXCEPT !.arg = collection_value(objects.sources[s])],
                     game_merged(objects.target,
                                 tree_object_merge(objects.target[1],
                                                   objects.sources[s][1],
                                                   CallOf(a, hashorder,
                                                          objects.number + 1))))

\* target.normalize()
ObjectsNormalize ==
  /\ objects.sources # <<>>
  /\ op' = "Collection.normalize"
  /\ args' = NoArgs
  /\ target0' = target
  /\ source0' = source
  /\ target' = collection_normalize(target)
  /\ err' = NoErr
  /\ objects' = [objects EXCEPT !.target = collection_object_normalize(@), !.err = NoErr]
  /\ UNCHANGED <<source, hashorder, argsets, data, encoding, output, text, pvlist,
                 index, loops>>

NextObjects ==
  \/ ObjectsCollectionMerge
  \/ ObjectsGameTreeMerge
  \/ ObjectsNormalize

\* A target and two sources of one game each, as the Parser builds them: no
\* object is held twice
InitObjects ==
  /\ \E p \in ObjectInputs(MaxObjectNodes) :
       /\ target = <<p[1]>>
       /\ source = <<p[2]>>
       /\ objects = [target |-> <<tree_object(p[1], <<"target">>)>>,
                     sources |-> << <<tree_object(p[2], <<"source", "1">>)>>,
                                    <<tree_object(p[3], <<"source", "2">>)>> >>,
                     number |-> 0, err |-> NoErr]
  /\ data = <<>> /\ encoding = default_encoding
  /\ output = <<>> /\ text = <<>> /\ pvlist = <<>>
  /\ index = 0 /\ loops = <<>>
  /\ hashorder = <<"a", "b">>
  /\ argsets = {NoArgs, [NoArgs EXCEPT !.comment = <<"P">>]}
  /\ op = "init" /\ args = NoArgs /\ err = NoErr
  /\ target0 = target /\ source0 = source

SpecObjects == InitObjects /\ [][NextObjects]_vars

(***************************************************************************)
(* Vocabulary of the properties                                            *)
(***************************************************************************)
Ok == err.kind = "none"

\* The last call merged source into target
Merged == op \in {"Collection.merge", "GameTree.merge"}

Prefix == args.comment

Blank(str) == \A k \in 1..Len(str) : str[k] \in Whitespace

\* needle occurs in hay
Contains(hay, needle) ==
  \E k \in 0..(Len(hay) - Len(needle)) : SubSeq(hay, k + 1, k + Len(needle)) = needle

\* The node with the prefix in front of its comment (a blank comment counts
\* as none)
Prefixed(node, prefix) ==
  IF Has(node, "C") /\ ~Blank(Get(node, "C"))
  THEN Put(node, "C", prefix \o <<"\n">> \o Get(node, "C"))
  ELSE Put(node, "C", prefix)

\* No tree at any depth has exactly one branch
RECURSIVE IsNormal(_)
IsNormal(t) == Len(t.branches) # 1 /\ \A k \in 1..Len(t.branches) : IsNormal(t.branches[k])

\* The root-to-leaf paths of a tree, each the sequence of its nodes, in order
RECURSIVE PathSeq(_)
RECURSIVE PathSeqOfForest(_, _)
PathSeq(t) ==
  IF t.branches = <<>> THEN <<t.nodes>> ELSE PathSeqOfForest(t.nodes, t.branches)

PathSeqOfForest(trunk, f) ==
  IF f = <<>> THEN <<>>
  ELSE LET ps == PathSeq(Head(f))
       IN  [k \in 1..Len(ps) |-> trunk \o ps[k]] \o PathSeqOfForest(trunk, Tail(f))

Paths(t) == Range(PathSeq(t))

\* The call's ignore rules for an identifier, the built-in ones included
IgnoreValues(pid) ==
  default_ignore_property_values(pid) \cup ignore_get(args.ignore_property_values, pid)

(***************************************************************************)
(* C1.  Merge never mutates its source: after Collection.merge or          *)
(* GameTree.merge of a source distinct from the target has returned or     *)
(* raised, the source's trunk nodes, branches and property values are what *)
(* they were before the call.                                              *)
(***************************************************************************)
C1_SourceNeverMutated == Merged => source = source0

\* A merge with a prefix that split both trunks where they diverge: the
\* prefix was written on a node of the tree the merge worked on.
C1_Witness ==
  /\ op = "GameTree.merge" /\ Ok /\ Prefix = <<"P">>
  /\ Len(target0[1].nodes) = 2 /\ Len(source0[1].nodes) = 2
  /\ Len(target[1].nodes) = 1 /\ Len(target[1].branches) = 2
  /\ target[1].branches[2].nodes[1] # source0[1].nodes[2]

(***************************************************************************)
(* C2.  After a successful merge every root-to-leaf path of source         *)
(* corresponds, node for node and in order, to a path from target's root   *)
(* whose nodes hold what the source's nodes hold.                          *)
(***************************************************************************)
\* Both values are numbers, and math.isclose says they are close
BothClose(ft, fs) == ft.ok /\ fs.ok /\ IsClose(ft, fs)

NumericallyClose(tv, sv) == BothClose(Float(tv), Float(sv))

\* The rules of the call skip this item of a source node
Ignored(pid, v) ==
  \/ any \in IgnoreValues(pid)
  \/ pid \in scalar_properties /\ v \in IgnoreValues(pid)

\* As claimed: the target node holds every value of the source node that is
\* not ignored (every entry of a list, the text of a comment inside the
\* merged comment, the very value of any other scalar; so the mover
\* identifier and the coordinate of a move).
HoldsValue(pid, tv, sv) ==
  IF pid \notin scalar_properties THEN Range(sv) \subseteq Range(tv)
  ELSE IF pid = "C" THEN Contains(tv, Strip(sv))
  ELSE tv = sv

HoldsNode(tnode, snode) ==
  \A k \in 1..Len(snode) :
    \/ Ignored(snode[k].id, snode[k].val)
    \/ Has(tnode, snode[k].id) /\ HoldsValue(snode[k].id, Get(tnode, snode[k].id), snode[k].val)

\* As amended: a scalar other than the comment is also held when the
\* identifier is numeric and the two values are numerically equal, and when
\* it is a text identifier and the two values are equal but for case; target
\* keeps its own value then.  An empty scalar value of source has nothing to
\* hold.
HoldsValueUpTo(pid, tv, sv) ==
  \/ HoldsValue(pid, tv, sv)
  \/ /\ pid \in scalar_properties \ {"C"}
     /\ \/ pid \in real_properties /\ NumericallyClose(tv, sv)
        \/ pid \in text_properties /\ Lower(tv) = Lower(sv)

HoldsNodeUpTo(tnode, snode) ==
  \A k \in 1..Len(snode) :
    \/ Ignored(snode[k].id, snode[k].val)
    \/ snode[k].id \in scalar_properties \ {"C"} /\ snode[k].val = <<>>
    \/ /\ Has(tnode, snode[k].id)
       /\ HoldsValueUpTo(snode[k].id, Get(tnode, snode[k].id), snode[k].val)

\* The path q of target holds the path p of source, node for node
PathHolds(q, p) ==
  /\ Len(q) >= Len(p)
  /\ \A k \in 1..Len(p) : HoldsNode(q[k], p[k])

PathHoldsUpTo(q, p) ==
  /\ Len(q) >= Len(p)
  /\ \A k \in 1..Len(p) : HoldsNodeUpTo(q[k], p[k])

\* C2 as claimed: every path of source is held, value for value, by a path
\* of target
C2_Original ==
  Merged /\ Ok =>
    \A p \in Paths(source0[1]) : \E q \in Paths(target[1]) : PathHolds(q, p)

\* C2 as amended: every path of source is held by a path of target, where a
\* target node may keep its own scalar value when source's is numerically
\* equal to it, equal to it but for case, or empty
C2_Incorporated ==
  Merged /\ Ok =>
    \A p \in Paths(source0[1]) : \E q \in Paths(target[1]) : PathHoldsUpTo(q, p)

\* Two trunks of two nodes merged, the player names of the first nodes
\* differing in case and the second nodes diverging
C2_Witness ==
  /\ op = "Collection.merge" /\ Ok
  /\ Len(target0[1].nodes) = 2 /\ Len(source0[1].nodes) = 2
  /\ target0[1].nodes[1] = <<Item("PB", <<"A", "b">>)>>
  /\ source0[1].nodes[1] = <<Item("PB", <<"a", "b">>)>>
  /\ IgnoreValues("PB") = {}
  /\ Len(target[1].branches) = 2

(***************************************************************************)
(* C3.  Merge idempotence: merging a copy of a single-game Collection T,   *)
(* or T itself, into T with no comment prefix and without a conflict       *)
(* leaves T unchanged.                                                     *)
(***************************************************************************)
\* The last call merged into target a source of the same content
MergedSame ==
  \/ op = "Collection.merge(self)"
  \/ Merged /\ source0 = target0

\* C3 as claimed: merging T's copy, or T, into T without a prefix leaves T
\* unchanged
C3_Original ==
  MergedSame /\ Len(target0) = 1 /\ Prefix = NoneVal /\ Ok => target = target0

\* C3 as amended: T is unchanged when it is in normal form, and by
\* GameTree.merge; Collection.merge normalizes a T that is not in normal
\* form, keeping its root-to-leaf paths and their order.
C3_Idempotent ==
  MergedSame /\ Len(target0) = 1 /\ Prefix = NoneVal /\ Ok =>
    IF op = "GameTree.merge" \/ IsNormal(target0[1])
    THEN target = target0
    ELSE IsNormal(target[1]) /\ PathSeq(target[1]) = PathSeq(target0[1])

\* T, of a trunk and two branches, merged into itself
C3_Witness ==
  /\ op = "Collection.merge(self)" /\ Ok /\ Prefix = NoneVal
  /\ Len(target0[1].nodes) = 1 /\ Len(target0[1].branches) = 2
  /\ target = target0

(***************************************************************************)
(* C4.  Merging a source of the same content as target with a comment      *)
(* prefix leaves target unchanged: the prefix is added to no comment.      *)
(* (Stated of a target in normal form, which normalizing leaves alone.)    *)
(***************************************************************************)
C4_SameContentWithPrefix ==
  /\ MergedSame /\ Ok
  /\ Prefix = <<"P">>
  /\ IsNormal(target0[1])
  => target = target0

(***************************************************************************)
(* C5.  A target tree without trunk nodes and without branches is replaced *)
(* by a copy of source, the comment prefix in front of the comment of      *)
(* source's first trunk node and nowhere else; without a prefix target     *)
(* equals source.  (GameTree.merge, and Collection.merge of a source in    *)
(* normal form.)                                                           *)
(***************************************************************************)
C5_Expected ==
  IF Prefix = NoneVal \/ source0[1].nodes = <<>>
  THEN source0[1]
  ELSE [source0[1] EXCEPT !.nodes[1] = Prefixed(source0[1].nodes[1], Prefix)]

C6_Original == Merged /\ source0 = <<EmptyTree>> => target = target0

\* C6 as amended: GameTree.merge leaves target as it was, and so does
\* Collection.merge when target is in normal form; Collection.merge
\* normalizes a target that is not, keeping its paths and their order.
C6_EmptySourceNoOp ==
  Merged /\ source0 = <<EmptyTree>> =>
    /\ Ok
    /\ IF op = "GameTree.merge" \/ IsNormal(target0[1])
       THEN target = target0
       ELSE IsNormal(target[1]) /\ PathSeq(target[1]) = PathSeq(target0[1])

\* An empty source merged into a target of two branches, one with a branch of
\* its own
C6_Witness ==
  /\ op = "Collection.merge" /\ source0 = <<EmptyTree>>
  /\ Len(target0[1].branches) = 2
  /\ ~IsNormal(target0[1])
  /\ target # target0

(***************************************************************************)
(* C7.  Divergence becomes branching: at the first index where the trunk   *)
(* nodes are not equivalent, target's trunk is cut to the common prefix    *)
(* and its branches become exactly two: target's tail with target's old    *)
(* branches, then source's tail with source's branches, the prefix on the  *)
(* first node of that tail.  (GameTree.merge, and Collection.merge of two  *)
(* branchless trees.)                                                      *)
(***************************************************************************)
\* The first index at which both trunks have a node and the two are not
\* equivalent, 0 if there is none
Divergence(t, s) ==
  LET n == Min(Len(t.nodes), Len(s.nodes))
      D == {k \in 1..n : ~equivalent(t.nodes[k], s.nodes[k]).val}
  IN  IF D = {} THEN 0 ELSE CHOOSE k \in D : \A j \in D : k <= j

C7_Expected(t, s, d) ==
  LET tail == SubSeq(s.nodes, d, Len(s.nodes))
  IN  << [nodes |-> SubSeq(t.nodes, d, Len(t.nodes)), branches |-> t.branches],
         [nodes |-> IF Prefix = NoneVal THEN tail
                    ELSE [tail EXCEPT ![1] = Prefixed(tail[1], Prefix)],
          branches |-> s.branches] >>

MergedNodes ==
  /\ Merged
  /\ Len(target0[1].nodes) = 1 /\ target0[1].branches = <<>>
  /\ Len(source0[1].nodes) = 1 /\ source0[1].branches = <<>>

TargetNode0 == target0[1].nodes[1]

SourceNode0 == source0[1].nodes[1]

TargetNode == target[1].nodes[1]

(***************************************************************************)
(* C8.  Two equivalent nodes that hold the same scalar identifier with     *)
(* different non-empty values, neither ignore-listed, not numerically      *)
(* close for a numeric identifier, not equal but for case for a text       *)
(* identifier: the merge raises a MergeError that names the identifier and *)
(* both values.                                                            *)
(***************************************************************************)
Conflicting(pid, tv, sv) ==
  /\ pid \in scalar_properties \ {"C"}
  /\ tv # sv /\ tv # <<>> /\ sv # <<>>
  /\ any \notin IgnoreValues(pid) /\ tv \notin IgnoreValues(pid) /\ sv \notin IgnoreValues(pid)
  /\ ~(pid \in real_properties /\ NumericallyClose(tv, sv))
  /\ ~(pid \in text_properties /\ Lower(tv) = Lower(sv))

\* C8: a conflict of scalar values raises a MergeError naming the identifier
\* and both values
C8_ConflictRaisesMergeError ==
  MergedNodes =>
    \A pid \in Keys(TargetNode0) \cap Keys(SourceNode0) :
      Conflicting(pid, Get(TargetNode0, pid), Get(SourceNode0, pid)) =>
        err = [kind |-> "MergeError", pid |-> pid,
               self_value |-> Get(TargetNode0, pid),
               other_value |-> Get(SourceNode0, pid)]

(***************************************************************************)
(* C9.  A property of the source node whose identifier is ignore-listed    *)
(* with the wildcard, or with exactly the source's value, is skipped,      *)
(* whether the identifier is scalar or list-valued: the target node keeps  *)
(* the value it had, or keeps lacking the property, and nothing is raised. *)
(***************************************************************************)
C9_IgnoredPropertySkipped ==
  MergedNodes =>
    \A k \in 1..Len(SourceNode0) :
      Ignored(SourceNode0[k].id, SourceNode0[k].val) =>
        /\ Ok
        /\ Has(TargetNode, SourceNode0[k].id) <=> Has(TargetNode0, SourceNode0[k].id)
        /\ Has(TargetNode0, SourceNode0[k].id) =>
             Get(TargetNode, SourceNode0[k].id) = Get(TargetNode0, SourceNode0[k].id)

(***************************************************************************)
(* C10.  List union: for a list-valued identifier that both nodes hold     *)
(* (and no rule ignores), the merged value is target's list as it was,     *)
(* followed by the entries of source's list that target's list does not    *)
(* have, in source's order (each once).                                    *)
(***************************************************************************)
\* The entries of a list in the order of their first occurrence
RECURSIVE FirstOccurrences(_)
FirstOccurrences(seq) ==
  IF seq = <<>> THEN <<>>
  ELSE LET front == FirstOccurrences(SubSeq(seq, 1, Len(seq) - 1))
       IN  IF seq[Len(seq)] \in Range(front) THEN front ELSE Append(front, seq[Len(seq)])

C10_Union(tv, sv) == tv \o SelectSeq(FirstOccurrences(sv), LAMBDA x : x \notin Range(tv))

\* C10: the merged list is target's list followed by source's new entries
\* in source's order
C10_ListUnionInSourceOrder ==
  MergedNodes /\ Ok =>
    \A pid \in (Keys(TargetNode0) \cap Keys(SourceNode0)) \ scalar_properties :
      any \notin IgnoreValues(pid) =>
        Get(TargetNode, pid) = C10_Union(Get(TargetNode0, pid), Get(SourceNode0, pid))

(***************************************************************************)
(* C11.  Numeric tolerance: merging the numeric identifier KM with target  *)
(* '4.5' and source '4.50000001' raises nothing and keeps target's value,  *)
(* while '4.5' against '5.5' raises a merge conflict.                      *)
(***************************************************************************)
\* The last call merged a node with the komi sv into a node with the komi tv
KomiMerged(tv, sv) ==
  /\ MergedNodes
  /\ Has(TargetNode0, "KM") /\ Get(TargetNode0, "KM") = tv
  /\ Has(SourceNode0, "KM") /\ Get(SourceNode0, "KM") = sv

\* Nothing raised, target's node as it was
KeptValue == Ok /\ TargetNode = TargetNode0

\* A MergeError that names KM and the two values
KomiConflict(tv, sv) ==
  err = [kind |-> "MergeError", pid |-> "KM", self_value |-> tv, other_value |-> sv]

\* C11 as claimed: 4.5 and 4.50000001 are treated as equal, 4.5 and 5.5
\* conflict
C11_Original ==
  /\ KomiMerged(<<"4", ".", "5">>, <<"4", ".", "5", "0", "0", "0", "0", "0", "0", "1">>)
       => KeptValue
  /\ KomiMerged(<<"4", ".", "5">>, <<"5", ".", "5">>)
       => KomiConflict(<<"4", ".", "5">>, <<"5", ".", "5">>)

\* C11 as amended: two komi values are treated as equal when they differ by
\* at most 1e-09 of the larger one (4.5 and 4.50, 20 and 20.00000001), and
\* conflict otherwise (4.5 and 4.50000001, 4.5 and 5.5)
C11_NumericTolerance ==
  /\ KomiMerged(<<"4", ".", "5">>, <<"4", ".", "5", "0">>) => KeptValue
  /\ KomiMerged(<<"2", "0">>, <<"2", "0", ".", "0", "0", "0", "0", "0", "0", "0", "1">>)
       => KeptValue
  /\ KomiMerged(<<"4", ".", "5">>, <<"4", ".", "5", "0", "0", "0", "0", "0", "0", "1">>)
       => KomiConflict(<<"4", ".", "5">>,
                       <<"4", ".", "5", "0", "0", "0", "0", "0", "0", "1">>)
  /\ KomiMerged(<<"4", ".", "5">>, <<"5", ".", "5">>)
       => KomiConflict(<<"4", ".", "5">>, <<"5", ".", "5">>)
  /\ /\ MergedNodes
     /\ Has(TargetNode0, "KM") /\ Has(SourceNode0, "KM")
     /\ Get(TargetNode0, "KM") # Get(SourceNode0, "KM")
     => IF NumericallyClose(Get(TargetNode0, "KM"), Get(SourceNode0, "KM"))
        THEN KeptValue
        ELSE KomiConflict(Get(TargetNode0, "KM"), Get(SourceNode0, "KM"))

\* The komi 20.00000001 merged into the komi 20: no conflict
C11_Witness ==
  /\ op = "Collection.merge"
  /\ KomiMerged(<<"2", "0">>, <<"2", "0", ".", "0", "0", "0", "0", "0", "0", "0", "1">>)
  /\ KeptValue

(***************************************************************************)
(* C12.  Normalize: after normalize no tree at any depth has exactly one   *)
(* branch; a tree that had exactly one branch has that branch's trunk      *)
(* spliced onto the end of its own trunk and that branch's branches for    *)
(* its branches, repeatedly, so the nodes along every root-to-leaf path    *)
(* and the order of the paths are unchanged (trunk [n1] with the single    *)
(* branch [n2, n3] becomes trunk [n1, n2, n3] with zero branches).         *)
(***************************************************************************)
\* The trunk of a tree after its lone branches have been spliced onto it,
\* one after another
RECURSIVE SplicedTrunk(_)
SplicedTrunk(t) ==
  IF Len(t.branches) = 1 THEN t.nodes \o SplicedTrunk(t.branches[1]) ELSE t.nodes

\* The branches that tree is left with: those of the first tree down the
\* chain of lone branches that has none or several
RECURSIVE SplicedBranches(_)
SplicedBranches(t) ==
  IF Len(t.branches) = 1 THEN SplicedBranches(t.branches[1]) ELSE t.branches

\* after is before with every lone branch spliced, at every depth
RECURSIVE IsSpliced(_, _)
IsSpliced(after, before) ==
  /\ after.nodes = SplicedTrunk(before)
  /\ Len(after.branches) = Len(SplicedBranches(before))
  /\ \A k \in 1..Len(after.branches) :
       IsSpliced(after.branches[k], SplicedBranches(before)[k])

\* C12: normalize leaves no tree with exactly one branch, splices every lone
\* branch into its parent and keeps the paths and their order
C12_Normalize ==
  op = "Collection.normalize" =>
    /\ Ok
    /\ Len(target) = Len(target0)
    /\ \A k \in 1..Len(target) :
         /\ IsNormal(target[k])
         /\ IsSpliced(target[k], target0[k])
         /\ PathSeq(target[k]) = PathSeq(target0[k])
         /\ Len(target0[k].branches) = 1 /\ target0[k].branches[1].branches = <<>>
              => target[k] = [nodes |-> target0[k].nodes \o target0[k].branches[1].nodes,
                              branches |-> <<>>]

\* A tree without a trunk of its own whose lone branch has a trunk of one
\* node and two branches: normalize makes that the tree
C12_Witness ==
  /\ op = "Collection.normalize"
  /\ target0[1].nodes = <<>> /\ Len(target0[1].branches) = 1
  /\ Len(target0[1].branches[1].nodes) = 1
  /\ Len(target0[1].branches[1].branches) = 2
  /\ target[1] = target0[1].branches[1]

(***************************************************************************)
(* C13.  Round trip: for any Collection produced by parse, parsing its     *)
(* canonical byte serialization yields a Collection equal to it in         *)
(* structure (same trees, trunks, branches) and in every property value,   *)
(* the value of the charset property CA excepted.                          *)
(***************************************************************************)
\* A node, and a tree, with the value of the charset property blanked
CharsetBlanked(node) ==
  [k \in 1..Len(node) |-> IF node[k].id = "CA" THEN [id |-> "CA", val |-> <<>>] ELSE node[k]]

RECURSIVE WithoutCharset(_)
WithoutCharset(t) ==
  [nodes |-> [k \in 1..Len(t.nodes) |-> CharsetBlanked(t.nodes[k])],
   branches |-> [k \in 1..Len(t.branches) |-> WithoutCharset(t.branches[k])]]

\* Two Collections are equal but for the values of CA
SameButCharset(c, d) ==
  /\ Len(c) = Len(d)
  /\ \A k \in 1..Len(c) : WithoutCharset(c[k]) = WithoutCharset(d[k])

\* C13: the Collection parsed from bytes(collection) is the Collection, the
\* value of CA excepted
C13_RoundTrip ==
  op = "Parser.parse(bytes)" => Ok /\ SameButCharset(source, target)

(***************************************************************************)
(* C14.  Escaping round trip: for any string (backslashes, ']' and line    *)
(* breaks included) Node.escape_text puts a backslash in front of each     *)
(* backslash and each ']' and changes nothing else, and the parser's value *)
(* reader applied to the escaped text inside brackets returns the original *)
(* string exactly.                                                         *)
(***************************************************************************)
NeedsEscape(ch) == ch \in {"\\", "]"}

\* Where the k-th character of str is once every character that needs it
\* has a backslash in front
EscapedPosition(str, k) == k + Cardinality({j \in 1..k : NeedsEscape(str[j])})

\* escaped is str with a backslash in front of each backslash and each ']'
\* and nothing else changed
IsEscaped(escaped, str) ==
  /\ Len(escaped) = EscapedPosition(str, Len(str))
  /\ \A k \in 1..Len(str) :
       /\ escaped[EscapedPosition(str, k)] = str[k]
       /\ NeedsEscape(str[k]) => escaped[EscapedPosition(str, k) - 1] = "\\"

\* The bytes of the text, and the bytes between the brackets of the output
TextBytes == encode(text, TEXT_ENCODING).bytes

EscapedBytes == SubSeq(output, 2, Len(output) - 1)

RECURSIVE ValueEnd(_, _)
ValueEnd(bytes, k) ==
  IF k > Len(bytes) \/ bytes[k] = "]" THEN k
  ELSE IF bytes[k] = "\\" THEN ValueEnd(bytes, k + 2)
  ELSE ValueEnd(bytes, k + 1)

\* The trees open at some point of a text, outermost first: TRUE for those
\* that have had a branch.  The innermost gets a branch:
Branched(open) ==
  IF open = <<>> THEN open ELSE [open EXCEPT ![Len(open)] = TRUE]

\* From k on, a ';' outside the values stands in a tree that has had a branch
RECURSIVE NodeAfterBranchFrom(_, _, _)
NodeAfterBranchFrom(bytes, k, open) ==
  IF k > Len(bytes) THEN FALSE
  ELSE IF bytes[k] = "[" THEN NodeAfterBranchFrom(bytes, ValueEnd(bytes, k + 1) + 1, open)
  ELSE IF bytes[k] = "(" THEN NodeAfterBranchFrom(bytes, k + 1, Append(Branched(open), FALSE))
  ELSE IF bytes[k] = ")"
  THEN NodeAfterBranchFrom(bytes, k + 1,
                           IF open = <<>> THEN open ELSE SubSeq(open, 1, Len(open) - 1))
  ELSE IF bytes[k] = ";" /\ open # <<>> /\ open[Len(open)] THEN TRUE
  ELSE NodeAfterBranchFrom(bytes, k + 1, open)

HasNodeAfterBranch(bytes) == NodeAfterBranchFrom(bytes, 1, <<>>)

\* C15: parsing an input with a node after a branch of its tree raises
\* TreeParseError 'A node was encountered after a branch' and returns no
\* Collection
C15_NodeAfterBranchRaises ==
  op = "Parser.parse" /\ HasNodeAfterBranch(data) =>
    /\ err = NodeAfterBranch
    /\ target = <<>>

(***************************************************************************)
(* C16.  Truncated input is an end-of-data error: parsing any input that   *)
(* ends while a tree is still open (its closing ')' is never reached), or  *)
(* that ends inside a node before the next ';', '(' or ')', raises         *)
(* EndOfDataParseError and returns no Collection, partial or otherwise.    *)
(***************************************************************************)
\* How many trees are open at the end of a text that is read from k on with
\* depth trees open; -1 if something other than a tree stands between trees
RECURSIVE OpenTreesFrom(_, _, _)
OpenTreesFrom(bytes, k, depth) ==
  IF k > Len(bytes) THEN depth
  ELSE IF bytes[k] = "(" THEN OpenTreesFrom(bytes, k + 1, depth + 1)
  ELSE IF depth = 0
  THEN IF bytes[k] \in ByteWhitespace THEN OpenTreesFrom(bytes, k + 1, depth) ELSE -1
  ELSE IF bytes[k] = ")" THEN OpenTreesFrom(bytes, k + 1, depth - 1)
  ELSE IF bytes[k] = "[" THEN OpenTreesFrom(bytes, ValueEnd(bytes, k + 1) + 1, depth)
  ELSE OpenTreesFrom(bytes, k + 1, depth)

\* The text is trees one after the other and ends inside the last of them
EndsInOpenTree(bytes) == OpenTreesFrom(bytes, 1, 0) > 0

\* C16: parsing an input that ends inside a tree raises EndOfDataParseError
\* and returns no Collection
C16_TruncatedRaisesEndOfData ==
  op = "Parser.parse" /\ EndsInOpenTree(data) =>
    /\ err.kind = "EndOfDataParseError"
    /\ target = <<>>

(***************************************************************************)
(* C17.  Charset switching: at every point of a parse the charset used to  *)
(* decode a text-typed value is the one declared by the most recent CA     *)
(* property read before that value (latin-1 if none has been read yet),    *)
(* across nodes and trees of the same input, and every CA value stored in  *)
(* a parsed node is 'UTF-8' whatever charset the input declared.           *)
(***************************************************************************)
\* The last of the run of letters that starts at k
RECURSIVE LettersEnd(_, _)
LettersEnd(bytes, k) ==
  IF k < Len(bytes) /\ bytes[k + 1] \in Letters THEN LettersEnd(bytes, k + 1) ELSE k

\* A value without its escapes: the backslashes are gone, and so are the
\* line breaks that had one in front
RECURSIVE Unescaped(_)
Unescaped(raw) ==
  IF raw = <<>> THEN <<>>
  ELSE IF Head(raw) # "\\" THEN <<Head(raw)>> \o Unescaped(Tail(raw))
  ELSE IF Len(raw) = 1 THEN <<>>
  ELSE IF raw[2] \notin {"\n", "\r"} THEN <<raw[2]>> \o Unescaped(SubSeq(raw, 3, Len(raw)))
  ELSE IF Len(raw) > 2 /\ raw[3] \in {"\n", "\r"} \ {raw[2]}
  THEN Unescaped(SubSeq(raw, 4, Len(raw)))
  ELSE Unescaped(SubSeq(raw, 3, Len(raw)))

\* The properties written in a text, one after the other, whatever the nodes
\* and trees they stand in: the identifier and the bytes of the first value
RECURSIVE PropertiesFrom(_, _)
PropertyAt(bytes, k, last, end) ==
  IF last < Len(bytes) /\ bytes[last + 1] = "["
  THEN <<[id |-> JoinLetters(SubSeq(bytes, k, last)),
          raw |-> Unescaped(SubSeq(bytes, last + 2, end - 1))]>>
         \o PropertiesFrom(bytes, end + 1)
  ELSE PropertiesFrom(bytes, last + 1)

PropertiesFrom(bytes, k) ==
  IF k > Len(bytes) THEN <<>>
  ELSE IF bytes[k] = "[" THEN PropertiesFrom(bytes, ValueEnd(bytes, k + 1) + 1)
  ELSE IF bytes[k] \in Letters
  THEN PropertyAt(bytes, k, LettersEnd(bytes, k), ValueEnd(bytes, LettersEnd(bytes, k) + 2))
  ELSE PropertiesFrom(bytes, k + 1)

\* The text values of these properties from the k-th on, each decoded with
\* the charset the last CA before it declared; a CA is 'UTF-8'
RECURSIVE DecodedFrom(_, _, _)
DecodedFrom(props, k, charset) ==
  IF k > Len(props) THEN <<>>
  ELSE IF props[k].id = "CA"
  THEN <<TEXT_ENCODING>> \o DecodedFrom(props, k + 1, decode(props[k].raw, charset).str)
  ELSE IF props[k].id \in text_properties
  THEN <<decode(props[k].raw, charset).str>> \o DecodedFrom(props, k + 1, charset)
  ELSE DecodedFrom(props, k + 1, charset)

ExpectedTexts(bytes) == DecodedFrom(PropertiesFrom(bytes, 1), 1, default_encoding)

\* The text values of a node, a tree and a Collection in reading order
NodeTexts(node) ==
  [k \in 1..Len(SelectSeq(node, LAMBDA it : it.id \in text_properties)) |->
     SelectSeq(node, LAMBDA it : it.id \in text_properties)[k].val]

RECURSIVE TreeTexts(_)
TreeTexts(t) ==
  Concat([k \in 1..Len(t.nodes) |-> NodeTexts(t.nodes[k])])
    \o Concat([k \in 1..Len(t.branches) |-> TreeTexts(t.branches[k])])

CollectionTexts(c) == Concat([k \in 1..Len(c) |-> TreeTexts(c[k])])

\* The nodes of a tree
RECURSIVE NodesOf(_)
NodesOf(t) == Range(t.nodes) \cup UNION { NodesOf(t.branches[k]) : k \in 1..Len(t.branches) }

\* C17: every CA a parse stores is 'UTF-8', and when the Collection holds
\* every text value of the input, each is decoded with the charset of the
\* last CA read before it, latin-1 before the first
C17_CharsetSwitching ==
  op = "Parser.parse" /\ Ok =>
    /\ \A k \in 1..Len(target) : \A node \in NodesOf(target[k]) :
         Has(node, "CA") => Get(node, "CA") = TEXT_ENCODING
    /\ Len(CollectionTexts(target)) = Len(ExpectedTexts(data))
         => CollectionTexts(target) = ExpectedTexts(data)

\* A comment read as latin-1 in front of the CA of its node, and the same
\* bytes read as UTF-8 in the tree after it
C17_Witness ==
  /\ op = "Parser.parse" /\ Ok
  /\ data = <<"(", ";", "C", "[">> \o EAcute \o <<"]", "C", "A", "[", "U", "T", "F", "-", "8", "]", ")",
              "(", ";", "C", "[">> \o EAcute \o <<"]", ")">>
  /\ CollectionTexts(target) = <<<<"U+00C3", "U+00A9">>, TEXT_ENCODING, <<"U+00E9">>>>
  /\ encoding = TEXT_ENCODING

(***************************************************************************)
(* C18.  Branch reconciliation order: after two trees are aligned at a     *)
(* common boundary, target's branch list is its original branches in their *)
(* original order (each merged with at most one source branch, the one     *)
(* whose first node is equivalent to its first node), followed by every    *)
(* unmatched source branch in source's relative order, each unmatched one  *)
(* carrying the comment prefix on its first node; target's first variation *)
(* stays first.                                                            *)
(***************************************************************************)
Equivalent(node, other) == equivalent(node, other).val

\* The first of the branches whose first node is equivalent to that of the
\* branch, 0 if there is none
FirstMatch(branch, branches) ==
  IF \E k \in 1..Len(branches) : Equivalent(branch.nodes[1], branches[k].nodes[1])
  THEN CHOOSE k \in 1..Len(branches) :
         /\ Equivalent(branch.nodes[1], branches[k].nodes[1])
         /\ \A j \in 1..(k - 1) : ~Equivalent(branch.nodes[1], branches[j].nodes[1])
  ELSE 0

Without(seq, k) ==
  IF k = 0 THEN seq ELSE [j \in 1..(Len(seq) - 1) |-> IF j < k THEN seq[j] ELSE seq[j + 1]]

\* The source branches left once each target branch, in turn, has taken the
\* first one whose first node is equivalent to its own
RECURSIVE Unmatched(_, _)
Unmatched(target_branches, source_branches) ==
  IF target_branches = <<>> THEN source_branches
  ELSE Unmatched(Tail(target_branches),
                 Without(source_branches, FirstMatch(Head(target_branches), source_branches)))

\* The branch with the prefix of the call on its first node
PrefixedBranch(branch) ==
  IF Prefix = NoneVal THEN branch
  ELSE [branch EXCEPT !.nodes[1] = Prefixed(branch.nodes[1], Prefix)]

\* The target branch merged with the first of the source branches left whose
\* first node is equivalent to its own; itself if there is none
MergedWith(branch, left) ==
  IF FirstMatch(branch, left) = 0 THEN branch
  ELSE game_tree_merge(branch, left[FirstMatch(branch, left)], Prefix,
                       args.comments_everywhere, args.ignore_property_values,
                       hashorder).self

\* branches is target_branches, each in its place and merged with the source
\* branch it takes, followed by the prefixed source branches that are left
Reconciled(branches, target_branches, source_branches) ==
  /\ Len(branches) = Len(target_branches) + Len(Unmatched(target_branches, source_branches))
  /\ \A j \in 1..Len(target_branches) :
       branches[j] = MergedWith(target_branches[j],
                                Unmatched(SubSeq(target_branches, 1, j - 1), source_branches))
  /\ \A k \in 1..Len(Unmatched(target_branches, source_branches)) :
       branches[Len(target_branches) + k] =
         PrefixedBranch(Unmatched(target_branches, source_branches)[k])

\* The two trunks are of one length and equivalent node by node, source has
\* branches, and target is not the empty tree
Aligned(t, s) ==
  /\ Len(t.nodes) = Len(s.nodes)
  /\ Divergence(t, s) = 0
  /\ s.branches # <<>>
  /\ t # EmptyTree

\* The branches target goes into the reconciliation with: its own, or, if
\* it has none, the placeholder branch of one node with an empty comment
TargetBranches(t) == IF t.branches = <<>> THEN <<placeholder>> ELSE t.branches

Occurrences(hay, needle) ==
  Cardinality({k \in 0..(Len(hay) - Len(needle)) : SubSeq(hay, k + 1, k + Len(needle)) = needle})

Comment(node) == IF Has(node, "C") THEN Get(node, "C") ELSE <<>>

\* The nodes without their comments
Uncommented(nodes) == [k \in 1..Len(nodes) |-> Del(nodes[k], "C")]

\* The prefix stands once in the comment of the first node of the branch
\* and in the comment of no other node of its trunk
MarkedOnce(branch) ==
  /\ Occurrences(Comment(branch.nodes[1]), Prefix) = 1
  /\ \A k \in 2..Len(branch.nodes) : Occurrences(Comment(branch.nodes[k]), Prefix) = 0

\* Source's trunk is equivalent to target's as far as target's goes and goes
\* on; target has branches, and none starts with a node equivalent to the
\* first node of what is left of source's trunk
UnmatchedLongerTail(t, s) ==
  /\ Len(s.nodes) > Len(t.nodes)
  /\ Divergence(t, s) = 0
  /\ t.branches # <<>>
  /\ \A k \in 1..Len(t.branches) :
       /\ t.branches[k].nodes # <<>>
       /\ ~Equivalent(t.branches[k].nodes[1], s.nodes[Len(t.nodes) + 1])

SourceTail == SubSeq(source0[1].nodes, Len(target0[1].nodes) + 1, Len(source0[1].nodes))

\* C19 for the unmatched longer tail: the variation made of it is target's
\* last branch and bears the prefix once, on its first node
C19_PrefixOnce ==
  /\ Merged /\ Ok /\ Prefix = <<"P">>
  /\ UnmatchedLongerTail(target0[1], source0[1])
  => /\ Len(target[1].branches) = Len(target0[1].branches) + 1
     /\ Uncommented(target[1].branches[Len(target[1].branches)].nodes) = Uncommented(SourceTail)
     /\ MarkedOnce(target[1].branches[Len(target[1].branches)])

(***************************************************************************)
(* C20.  Trunk exhaustion with a branchless shorter side: when the two     *)
(* trunks are equivalent along the whole shorter trunk and the shorter     *)
(* side has no branches, no tail is converted into a branch: if target is  *)
(* the longer side its tail and branches are retained unchanged, and if    *)
(* source is the longer side its unmatched tail is discarded, so target    *)
(* gains no node and no branch from it.                                    *)
(***************************************************************************)
\* The trunks are equivalent along the shorter one, which is that of short,
\* and short has no branches
Exhausted(short, long) ==
  /\ Len(short.nodes) < Len(long.nodes)
  /\ Divergence(short, long) = 0
  /\ short.branches = <<>>

\* What follows the first n nodes of a sequence of nodes
After(nodes, n) == SubSeq(nodes, n + 1, Len(nodes))

\* Target is the longer side: its tail and its branches are as they were
TargetRetained ==
  /\ Len(target[1].nodes) = Len(target0[1].nodes)
  /\ After(target[1].nodes, Len(source0[1].nodes))
       = After(target0[1].nodes, Len(source0[1].nodes))
  /\ target[1].branches = target0[1].branches

\* Source is the longer side and target gains no node and no branch
SourceDiscarded ==
  /\ CountNodes(target[1]) = CountNodes(target0[1])
  /\ target[1].branches = target0[1].branches

\* Source is the longer side and target gains its tail: target's paths are
\* as many and as long as source's, and after target's old trunk each node
\* holds what the node of source holds
SourceIncorporated ==
  /\ CountNodes(target[1]) = CountNodes(source0[1])
  /\ Len(PathSeq(target[1])) = Len(PathSeq(source0[1]))
  /\ \A k \in 1..Len(PathSeq(target[1])) :
       /\ Len(PathSeq(target[1])[k]) = Len(PathSeq(source0[1])[k])
       /\ \A n \in (Len(target0[1].nodes) + 1)..Len(PathSeq(target[1])[k]) :
            HoldsNodeUpTo(PathSeq(target[1])[k][n], PathSeq(source0[1])[k][n])

\* C20 as stated: the longer tail is retained (target) or discarded (source)
C20_Original ==
  op = "GameTree.merge" /\ Ok =>
    /\ Exhausted(source0[1], target0[1]) => TargetRetained
    /\ Exhausted(target0[1], source0[1]) => SourceDiscarded

\* C20: the longer tail is retained (target) or becomes the continuation of
\* target (source)
C20_TrunkExhaustion ==
  op = "GameTree.merge" /\ Ok =>
    /\ Exhausted(source0[1], target0[1]) => TargetRetained
    /\ Exhausted(target0[1], source0[1]) => SourceIncorporated

\* A trunk of one node merged with a trunk that goes on for two more
C20_Witness ==
  /\ op = "GameTree.merge" /\ Ok
  /\ Exhausted(target0[1], source0[1])
  /\ Len(target0[1].nodes) = 1 /\ Len(source0[1].nodes) = 3
  /\ SourceIncorporated
  /\ CountNodes(target[1]) = 3

(***************************************************************************)
(* C21.  Comment merge.  When target's node holds a non-empty comment: if  *)
(* its trimmed text differs from source's trimmed text the merged comment  *)
(* is target's trimmed comment, a blank line, the prefix line (only with   *)
(* comments_everywhere) and source's trimmed comment; if the trimmed texts *)
(* are equal target's comment is unchanged.  When target's node has no     *)
(* comment (or an empty one) the merged comment is the prefix line (only   *)
(* with comments_everywhere) and source's trimmed comment.                 *)
(***************************************************************************)
\* The prefix as merge writes it in front of a comment: on a line of its own
PrefixLine ==
  IF args.comments_everywhere /\ Prefix # NoneVal THEN Prefix \o <<"\n">> ELSE <<>>

\* The comment the claim gives a node with the comment tc (NoneVal: none)
\* that a node with the comment sc is merged into
C21_Comment(tc, sc) ==
  IF Falsy(tc) THEN PrefixLine \o Strip(sc)
  ELSE IF Strip(tc) # Strip(sc) THEN Strip(tc) \o <<"\n", "\n">> \o PrefixLine \o Strip(sc)
  ELSE tc

Resolved(pid, v) == Ok /\ Has(TargetNode, pid) /\ Get(TargetNode, pid) = v

\* The outcome the chain gives for target's value tv and source's value sv
C22_Chain(pid, tv, sv) ==
  IF tv \in IgnoreValues(pid) THEN Resolved(pid, sv)
  ELSE IF tv = <<>> THEN Resolved(pid, sv)
  ELSE IF sv = <<>> THEN Resolved(pid, tv)
  ELSE IF pid \in real_properties /\ NumericallyClose(tv, sv) THEN Resolved(pid, tv)
  ELSE IF pid \in text_properties /\ Lower(tv) = Lower(sv) THEN Resolved(pid, tv)
  ELSE err.kind = "MergeError"

\* C22: every differing scalar value is resolved as the chain says
C22_ScalarResolution ==
  MergedNodes =>
    \A pid \in (Keys(TargetNode0) \cap Keys(SourceNode0) \cap scalar_properties) \ {"C"} :
      /\ Get(TargetNode0, pid) # Get(SourceNode0, pid)
      /\ ~Ignored(pid, Get(SourceNode0, pid))
      => C22_Chain(pid, Get(TargetNode0, pid), Get(SourceNode0, pid))

(***************************************************************************)
(* Vocabulary of the properties of classification and equivalence          *)
(***************************************************************************)
\* The node has no properties, or an empty comment and nothing else
OnlyEmptyComment(node) == node = <<>> \/ node = <<Item("C", <<>>)>>

\* The identifier sets the keys of the node intersect
Classes(node) ==
  {c \in {root_properties, setup_properties, move_properties} : Keys(node) \cap c # {}}

\* The node has no type or its keys intersect an identifier set: node_type
\* has an answer for it
Classifiable(node) == OnlyEmptyComment(node) \/ Classes(node) # {}

\* The merge took the two nodes for equivalent: they were merged into one
\* node, or merging their properties raised a conflict
Joined ==
  \/ Ok /\ Len(target[1].nodes) = 1 /\ target[1].branches = <<>>
  \/ err.kind = "MergeError"

\* The merge took the two nodes for different: each is a branch of its own
Diverged == Ok /\ target[1].nodes = <<>> /\ Len(target[1].branches) = 2

(***************************************************************************)
(* C23.  A node has no type if and only if it has no properties or its     *)
(* only property is an empty comment.  Such a node matches every node that *)
(* can be classified; a node with another property (a mover with an empty  *)
(* comment, say) is classified from the identifier sets its keys intersect *)
(* and does not match a node whose keys intersect none of the same sets.   *)
(***************************************************************************)
C23_TypelessIffOnlyEmptyComment ==
  MergedNodes /\ Classifiable(TargetNode0) /\ Classifiable(SourceNode0) =>
    /\ OnlyEmptyComment(TargetNode0) \/ OnlyEmptyComment(SourceNode0) => Joined
    /\ /\ ~OnlyEmptyComment(TargetNode0) /\ ~OnlyEmptyComment(SourceNode0)
       /\ Classes(TargetNode0) \cap Classes(SourceNode0) = {}
       => Diverged

(***************************************************************************)
(* C24.  Node equivalence.  A node without a type is equivalent to every   *)
(* node.  Two typed nodes whose types differ are not equivalent.  Two      *)
(* typed nodes of one type are equivalent, except that two move nodes are  *)
(* compared by their movers: if either holds no mover or both movers the   *)
(* comparison raises PropertyError, otherwise they are equivalent exactly  *)
(* when they hold the same mover with the same coordinate.                 *)
(***************************************************************************)
\* The node has no type for the code: no properties, or an empty comment
Typeless(node) == node = <<>> \/ (Has(node, "C") /\ Get(node, "C") = <<>>)

Typed(node) == ~Typeless(node) /\ Classes(node) # {}

\* The type of a typed node
NodeType(node) ==
  IF Keys(node) \cap root_properties # {} THEN "root"
  ELSE IF Keys(node) \cap setup_properties # {} THEN "setup"
  ELSE "move"

Movers(node) == Keys(node) \cap {"B", "W"}

\* A move node with no mover, or with both
Malformed(node) == NodeType(node) = "move" /\ Cardinality(Movers(node)) # 1

SameMove(node, other) ==
  /\ Movers(node) = Movers(other)
  /\ \A p \in Movers(node) : Get(node, p) = Get(other, p)

\* Two typed nodes without a malformed move node among them
SameTypeAndMove(node, other) ==
  /\ NodeType(node) = NodeType(other)
  /\ NodeType(node) = "move" => SameMove(node, other)

\* One of the two nodes has no type, the other has none or is typed
OneTypeless(node, other) ==
  \/ Typeless(node) /\ (Typeless(other) \/ Typed(other))
  \/ Typeless(other) /\ Typed(node)

HoldsRootOrSetup(node) ==
  Keys(node) \cap (root_only_properties \cup {"AB", "AW", "AE", "PL"}) # {}

C30_SetupIsRoot ==
  MergedNodes /\ Typed(TargetNode0) /\ Typed(SourceNode0) =>
    /\ HoldsRootOrSetup(TargetNode0) /\ HoldsRootOrSetup(SourceNode0) => Joined
    /\ HoldsRootOrSetup(TargetNode0) # HoldsRootOrSetup(SourceNode0) => Diverged

\* Setup stones together with a move, and a node that names the player to
\* move: both root nodes, merged into one node
C30_Witness ==
  /\ op = "Collection.merge" /\ MergedNodes /\ Ok
  /\ TargetNode0 = <<Item("AB", <<(<<"a", "a">>)>>), Item("B", <<"b", "b">>)>>
  /\ SourceNode0 = <<Item("PL", <<"B">>)>>
  /\ target[1].branches = <<>>
  /\ TargetNode = TargetNode0 \o SourceNode0

(***************************************************************************)
(* C26.  A merge that raises leaves target exactly as it was before the    *)
(* call: no pair of nodes that was merged before the failing one stays     *)
(* merged and no branch stays restructured.                                *)
(***************************************************************************)
C26_FailedMergeLeavesTarget == Merged /\ ~Ok => target = target0

(***************************************************************************)
(* C27.  After a Collection.merge that returned normally the target is in  *)
(* normal form, whatever it was before the call (so after any sequence of  *)
(* such calls): no tree at any depth of it has exactly one branch, the     *)
(* placeholder branch of a branchless target included.                     *)
(***************************************************************************)
C27_MergedIsNormal == op = "Collection.merge" /\ Ok => IsNormal(target[1])

\* A branchless target and a source of the same trunk length with a single
\* branch: the placeholder took that branch in and was spliced onto the trunk
C27_Witness ==
  /\ op = "Collection.merge" /\ Ok
  /\ target0[1].branches = <<>> /\ Len(source0[1].branches) = 1
  /\ Len(target0[1].nodes) = 1 /\ Len(source0[1].nodes) = 1
  /\ target[1].branches = <<>> /\ Len(target[1].nodes) >= 2
  /\ Head(target[1].nodes[2]).id = "C"

(***************************************************************************)
(* C28.  The output of a merge survives serialization: when the merge of   *)
(* two parsed single-game Collections has returned normally, parsing the   *)
(* bytes of the merged Collection raises nothing and gives a Collection    *)
(* equal to it, also when the two games diverge at their first node.       *)
(***************************************************************************)
C28_MergedRoundTrip == op = "Collection.load" => Ok /\ source = target

(***************************************************************************)
(* C29.  The parser scans forward and finishes: Parser.index never         *)
(* decreases during a parse and stays within 0..len(data); every iteration *)
(* of the loops of parse, parse_game_tree, parse_branches, parse_node and  *)
(* parse_property_value advances the index, returns or raises; and parse   *)
(* ends, with a Collection or with an error.                               *)
(***************************************************************************)
\* The index is a position of data
InRange == index \in 0..Len(data)

\* The loop that is back at its condition began the iteration it ended at a
\* smaller index
Advanced == loops # <<>> => Innermost.at < index

\* parse returned or raised
Ended == loops = <<>>

\* C29: at every step of a parse the index is within 0..len(data) and is not
\* less than it was, a loop that runs another iteration has advanced the
\* index, and the parse ends
C29_ForwardScan == [](InRange /\ Advanced) /\ [][index' >= index]_vars /\ <>Ended

\* A parse of two games that went through an escaped line break and ended
\* at the end of the data
C29_Witness ==
  /\ Ended /\ op = "Parser.parse" /\ Ok
  /\ Len(target) = 2
  /\ index = Len(data)
  /\ \E k \in 1..Len(data) : data[k] = "\r"

(***************************************************************************)
(* C25.  No aliasing: after any sequence of merge and normalize calls no   *)
(* Node, no GameTree and no list that is the value of a property is shared *)
(* between the target and a source that was merged into it, and no Node or *)
(* GameTree is held twice inside the target.                               *)
(***************************************************************************)
\* The ids of the objects the target holds, one for each place
TargetIds == collection_ids(objects.target)

\* Those of source s
SourceIds(s) == collection_ids(objects.sources[s])

\* The objects of the target that are copies of objects of source s
CopiedFrom(s) ==
  { id \in Range(TargetIds) :
      /\ Len(id) >= 2 /\ id[1] = "source" /\ id[2] = ToString(s)
      /\ \E k \in 1..Len(id) : id[k] = "copy" }

\* C25: whatever merges and normalizations were made, the target holds no
\* object at two places and no object that a source holds
C25_NoAliasing ==
  /\ Cardinality(Range(TargetIds)) = Len(TargetIds)
  /\ \A s \in 1..Len(objects.sources) : Range(TargetIds) \cap Range(SourceIds(s)) = {}

\* A target that was merged with both sources and normalized, and holds
\* copies of objects of each, a list sliced from a copy among them
C25_Witness ==
  /\ op = "Collection.normalize" /\ objects.number = 2
  /\ CopiedFrom(1) # {} /\ CopiedFrom(2) # {}
  /\ \E id \in Range(TargetIds) : \E k \in 1..Len(id) : id[k] = "slice"

====
